---- MODULE Spec2Model ----
(***************************************************************************)
(* Model of the tool-augmented conversation loops of the Regeneration      *)
(* Credit assistant:                                                       *)
(*   - RegenerationCreditAgent.chat (agents/main_agent.py), with the RAG   *)
(*     tools (tools/rag_tools.py), the vector store guard                  *)
(*     (rag/vector_store.py) and the tokens tracker ledger;                *)
(*   - run_agent_turn_single_llm (scripts_exemplos/finance_ai.py), with    *)
(*     its seletor background workers.                                     *)
(* Texts are sequences of tokens; a message is a record with the fields    *)
(* type, content, tool_calls and tool_call_id.                             *)
(***************************************************************************)
EXTENDS Integers, Sequences, FiniteSets, TLC

(***************************************************************************)
(* Bounds of the model.                                                    *)
(***************************************************************************)
\* settings.max_iterations as configured (the shipped default is 10).
MaxIterationsSetting == 2
\* Longest list of tool calls in one model response.
MaxCallsPerResponse == 2
\* Number of chat turns on one agent in SpecTurns.
MaxTurns == 2
\* Model invocations explored in one turn of run_agent_turn_single_llm, whose
\* loop has no bound of its own.
FaCallCap == 3
\* Threads that call registrar_chamada on one TokensTracker.
MaxCallers == 2
\* Messages a ConversationMemory holds when its methods are called in any order.
MaxMemoryMessages == 3
\* Chat turns explored beyond the k of the agent's window memory.
ExtraTurns == 2
\* Entries a TokensTracker holds when its methods are called one after another.
MaxRegistros == 3
MaxMatches == 3
MaxIds == 2

(***************************************************************************)
(* Input domains.                                                          *)
(***************************************************************************)
Questions == {<<"q">>}

\* response.content of a final answer: a plain string or a list of blocks.
Contents ==
    { [kind |-> "str", parts |-> <<"a1">>],
      [kind |-> "list", parts |-> <<"a1", "a2">>] }

\* str(e) of an exception raised by the model call.
ExcTexts == {"network", "auth"}

SearchTools == {"search_general", "search_contracts", "search_whitepaper"}

\* Names of the tools returned by RAGTools.get_tools.
BoundTools == SearchTools \cup {"consult_tokenomics_guide"}

NoId == <<>>
NoResult == [success |-> FALSE, response |-> <<>>, error |-> "none"]

ApologyMaxIterations == <<"Desculpe, nao consegui processar completamente sua pergunta.">>
ApologyException == <<"Desculpe, ocorreu um erro ao processar sua pergunta.">>

(***************************************************************************)
(* Messages.                                                               *)
(***************************************************************************)
SystemMessage(content) ==
    [type |-> "system", content |-> content, tool_calls |-> <<>>, tool_call_id |-> NoId]

HumanMessage(content) ==
    [type |-> "human", content |-> content, tool_calls |-> <<>>, tool_call_id |-> NoId]

AIMessage(content, calls) ==
    [type |-> "ai", content |-> content, tool_calls |-> calls, tool_call_id |-> NoId]

ToolMessage(content, id) ==
    [type |-> "tool", content |-> content, tool_calls |-> <<>>, tool_call_id |-> id]

\* content_to_text: the text blocks of a list joined by newlines, a string as is.
RECURSIVE JoinLines(_)
JoinLines(parts) ==
    IF Len(parts) = 0 THEN <<>>
    ELSE IF Len(parts) = 1 THEN <<parts[1]>>
    ELSE <<parts[1], "\n">> \o JoinLines(Tail(parts))

content_to_text(content) ==
    IF content.kind = "list" /\ Len(content.parts) > 0
    THEN JoinLines(content.parts)
    ELSE content.parts

(***************************************************************************)
(* State.                                                                  *)
(***************************************************************************)
VARIABLES
    vector_store,     \* VectorStoreManager.vector_store: "None" or "loaded"
    guide_exists,     \* whether documents/whitepaper_sintese.md exists
    memory,           \* memory.chat_memory.messages
    audits,           \* RAGTools.audits
    chamadas,         \* TokensTracker.chamadas of the agent
    pc,               \* position of chat: "idle", "loop", "dispatch", "returned", "raised"
    turn,             \* number of chat calls started on this agent
    message,          \* the argument of the running chat call
    messages,         \* the transient message list of the turn
    iteration,
    llm_call_count,
    tool_call_count,
    tool_calls,       \* tool calls of the response being dispatched
    call_idx,         \* number of tool calls of the response already dispatched
    result,           \* the dict returned by chat
    trace             \* outcome of each model invocation of the turn, in order

chatVars ==
    <<vector_store, guide_exists, memory, audits, chamadas, pc, turn, message, messages,
      iteration, llm_call_count, tool_call_count, tool_calls, call_idx, result, trace>>

VARIABLES
    fa_pc,               \* position of run_agent_turn_single_llm:
                         \* "idle", "loop", "dispatch", "returned", "raised"
    fa_turn,             \* number of turns started on this ConversationMemory
    max_tool_calls,      \* the argument max_tool_calls; -1 stands for None
    limit_announced,
    fa_messages,         \* messages, the local context of the turn
    fa_iteration,        \* iteration
    fa_llm_call_count,   \* llm_call_count
    fa_tool_call_count,  \* tool_call_count
    fa_tool_calls,       \* tool calls of the response being dispatched
    fa_call_idx,         \* number of them already dispatched
    retriever_queries,   \* iteration of each retriever call of the turn
    anotador_threads,    \* the turn's seletor threads, as indices into workers
    anotador_count,
    workers,             \* every seletor thread started so far
    llm_history,         \* ConversationMemory.llm_history
    ui_messages,         \* ConversationMemory.ui_messages
    chunks_pool,         \* chunks held by memory.chunks_state
    selecoes,            \* the mutations of chunks_state, in the order they happened
    fa_chamadas,         \* the ledger of the turn's TokensTracker
    fa_result            \* the dict returned by run_agent_turn_single_llm

faVars ==
    <<fa_pc, fa_turn, max_tool_calls, limit_announced, fa_messages, fa_iteration,
      fa_llm_call_count, fa_tool_call_count, fa_tool_calls, fa_call_idx, retriever_queries,
      anotador_threads, anotador_count, workers, llm_history, ui_messages, chunks_pool, selecoes,
      fa_chamadas, fa_result>>

VARIABLES
    pr_pc,            \* "idle", "input" (arguments chosen) or "computed"
    pr_model,         \* the argument model of calcular_custo
    pr_tokens,        \* the argument tokens
    pr_use_cached,    \* the argument use_cached
    pr_custo,         \* the value returned by the last call
    pr_campo,         \* the field raised between the last two calls, or "none"
    pr_custo_antes    \* the value returned by the call before the last

prVars == <<pr_pc, pr_model, pr_tokens, pr_use_cached, pr_custo, pr_campo, pr_custo_antes>>

VARIABLES
    tr_chamadas,      \* TokensTracker.chamadas of a tracker shared by threads
    tr_calls,         \* the call of registrar_chamada made by each thread
    tr_registros      \* calls of registrar_chamada completed since the last limpar

trVars == <<tr_chamadas, tr_calls, tr_registros>>

VARIABLES
    fn_name,          \* the function a caller applies, "none" when there is none
    fn_args,          \* its argument
    fn_results        \* what it returned, call after call

fnVars == <<fn_name, fn_args, fn_results>>

\* What RegenerationCreditAgent does not touch, what
\* run_agent_turn_single_llm and its threads do not touch, what the callers
\* of calcular_custo do not touch, what the callers of registrar_chamada
\* do not touch, and what the application of one function does not touch.
outsideChat == <<faVars, prVars, trVars, fnVars>>
outsideFa == <<chatVars, prVars, trVars, fnVars>>
outsidePricing == <<chatVars, faVars, trVars, fnVars>>
outsideTracker == <<chatVars, faVars, prVars, fnVars>>
outsideFn == <<chatVars, faVars, prVars, trVars>>

vars == <<chatVars, faVars, prVars, trVars, fnVars>>

(***************************************************************************)
(* Python floats: the result of an operation is the float nearest to the   *)
(* exact result, ties to even.  A float of the model keeps MantissaBits    *)
(* significant bits and is written as a natural number of units.           *)
(***************************************************************************)
MantissaBits == 15

RECURSIVE BitLength(_)
BitLength(n) == IF n = 0 THEN 0 ELSE 1 + BitLength(n \div 2)

RECURSIVE Pow2(_)
Pow2(k) == IF k <= 0 THEN 1 ELSE 2 * Pow2(k - 1)

\* The distance between two neighbouring floats around x.
Ulp(x) == Pow2(BitLength(x) - MantissaBits)

\* The float nearest to x.
float(x) ==
    LET u == Ulp(x)
        q == x \div u
        r == x % u
    IN  IF 2 * r > u \/ (2 * r = u /\ q % 2 = 1) THEN (q + 1) * u ELSE q * u

\* a + b on floats
float_add(a, b) == float(a + b)

\* a / n on floats, n a positive int
float_div(a, n) ==
    LET u == Ulp(a \div n)
        m == u * n
        q == a \div m
        r == a % m
    IN  IF 2 * r > m \/ (2 * r = m /\ q % 2 = 1) THEN (q + 1) * u ELSE q * u

(***************************************************************************)
(* Settings and the pieces of RegenerationCreditAgent.chat.                *)
(***************************************************************************)
top_k_results == 5

\* max_iterations = settings.max_iterations or 15
max_iterations == IF MaxIterationsSetting = 0 THEN 15 ELSE MaxIterationsSetting

\* Mutant of LoopGuard: the bound is tested inclusively.
LoopGuard_inclusive(it, maxit) == it <= maxit

\* while iteration < max_iterations
LoopGuard(it, maxit) == it < maxit

\* A call is a tool name with arguments the tool accepts (args_ok) or with
\* arguments on which tool_obj.invoke raises.  The calls of the responses in
\* Spec: a bound tool, a tool that is not bound, a call that raises.
CallKinds ==
    { [name |-> "search_general", args_ok |-> TRUE],
      [name |-> "calculate_scenario", args_ok |-> TRUE],
      [name |-> "search_general", args_ok |-> FALSE] }

\* The calls of the responses in SpecTurns: one call per response.
TurnCallKinds ==
    { [name |-> "search_general", args_ok |-> TRUE],
      [name |-> "consult_tokenomics_guide", args_ok |-> TRUE],
      [name |-> "calculate_scenario", args_ok |-> TRUE] }

\* The provider gives every call of a response its own id.
WithIds(kinds, it) ==
    [i \in 1..Len(kinds) |->
        [name |-> kinds[i].name, args_ok |-> kinds[i].args_ok, id |-> <<it, i>>]]

CallLists(it) ==
    { WithIds(kinds, it) :
        kinds \in UNION { [1..n -> CallKinds] : n \in 1..MaxCallsPerResponse } }

TurnCallLists(it) == { WithIds(<<kind>>, it) : kind \in TurnCallKinds }

\* The documents of the index and the scores the index gives them.
Docs == {"c1", "c2"}
Scores == {20001, 30002}

Document(content) == [page_content |-> content]

\* What the index holds for a query, best match first: at most MaxMatches
\* pairs of a document and its score.
MatchLists ==
    UNION { [1..n -> { <<Document(c), sc>> : c \in Docs, sc \in Scores }] : n \in 0..MaxMatches }

\* Chroma.similarity_search_with_score(query, k=k): the k best matches.
similarity_search_with_score(matches, k) ==
    SubSeq(matches, 1, IF k < Len(matches) THEN k ELSE Len(matches))

\* sum(scores): 0 + scores[0] + scores[1] + ...
RECURSIVE sum(_)
sum(scores) ==
    IF Len(scores) = 0 THEN 0
    ELSE float_add(sum(SubSeq(scores, 1, Len(scores) - 1)), scores[Len(scores)])

RECURSIVE min(_)
min(scores) ==
    IF Len(scores) = 1 THEN scores[1]
    ELSE LET m == min(Tail(scores)) IN IF scores[1] <= m THEN scores[1] ELSE m

RECURSIVE max(_)
max(scores) ==
    IF Len(scores) = 1 THEN scores[1]
    ELSE LET m == max(Tail(scores)) IN IF scores[1] >= m THEN scores[1] ELSE m

\* The metadata_summary of an audit.
metadata_summary(results_with_scores) ==
    LET scores == [i \in 1..Len(results_with_scores) |-> results_with_scores[i][2]]
    IN  IF Len(scores) = 0
        THEN [avg_score |-> 0, min_score |-> 0, max_score |-> 0]
        ELSE [avg_score |-> float_div(sum(scores), Len(scores)),
              min_score |-> min(scores),
              max_score |-> max(scores)]

\* VectorStoreManager.search_with_audit: raises when the store was never
\* initialized, otherwise returns the audit of the search.  k = 0 stands for
\* a k that is None or 0.  The field turn records the chat turn that issued
\* the search (history information).
search_with_audit(store, k, tool_name, t, matches) ==
    IF store = "None"
    THEN [raised |-> TRUE, error |-> "Vector store nao inicializado"]
    ELSE LET k_ == IF k = 0 THEN top_k_results ELSE k
             results_with_scores == similarity_search_with_score(matches, k_)
             results == [i \in 1..Len(results_with_scores) |-> results_with_scores[i][1]]
         IN  [raised |-> FALSE,
              audit |-> [tool_name |-> tool_name,
                         k |-> k_,
                         num_results |-> Len(results),
                         results |-> results,
                         results_with_scores |-> results_with_scores,
                         metadata_summary |-> metadata_summary(results_with_scores),
                         turn |-> t]]

\* What the index of the chat holds for the query of a search tool.
IndexMatches(name) == <<<<Document("c1"), 20001>>, <<Document("c2"), 30002>>>>

SearchErrorPrefix(name) ==
    CASE name = "search_general" -> "Erro ao buscar informacoes:"
      [] name = "search_contracts" -> "Erro ao buscar contratos:"
      [] OTHER -> "Erro ao buscar no whitepaper:"

\* RAGTools.search_general / search_contracts / search_whitepaper: the text
\* returned to the caller and the audits appended to RAGTools.audits.
search_tool(name, store, t) ==
    LET r == search_with_audit(store, top_k_results, name, t, IndexMatches(name))
    IN  IF r.raised
        THEN [content |-> <<SearchErrorPrefix(name), r.error>>, audit |-> <<>>]
        ELSE [content |-> <<"results of", name>>, audit |-> <<r.audit>>]

\* The score 1.0 that consult_tokenomics_guide gives the guide.
ScoreOne == 16384

\* RAGTools.consult_tokenomics_guide: the audit carries the guide as its one
\* chunk and has neither k nor results_with_scores.
consult_tokenomics_guide(exists, t) ==
    IF ~exists
    THEN [content |-> <<"Guia de tokenomics nao encontrado em:", "whitepaper_sintese.md">>,
          audit |-> <<>>]
    ELSE [content |-> <<"guide content">>,
          audit |-> <<[tool_name |-> "consult_tokenomics_guide",
                       num_results |-> 1,
                       metadata_summary |-> [avg_score |-> ScoreOne,
                                             min_score |-> ScoreOne,
                                             max_score |-> ScoreOne],
                       chunks |-> <<[index |-> 1, score |-> ScoreOne,
                                     content |-> "guide content"]>>,
                       turn |-> t]>>]

\* Mutant of DispatchOne: a call of an unknown tool is logged but not answered.
DispatchOne_unknown_unanswered(call, store, exists, t) ==
    IF call.name \in BoundTools
    THEN IF ~call.args_ok
         THEN [msgs |-> <<ToolMessage(<<"Erro ao executar tool", call.name, "invalid tool input">>,
                                      call.id)>>,
               audit |-> <<>>]
         ELSE LET r == IF call.name \in SearchTools
                       THEN search_tool(call.name, store, t)
                       ELSE consult_tokenomics_guide(exists, t)
              IN  [msgs |-> <<ToolMessage(r.content, call.id)>>, audit |-> r.audit]
    ELSE [msgs |-> <<>>, audit |-> <<>>]

\* Mutant of DispatchOne: the except branch answers with the bare exception
\* text under the fallback call id of the iteration.
DispatchOne_raise_misanswered(call, store, exists, t) ==
    IF call.name \in BoundTools
    THEN IF ~call.args_ok
         THEN [msgs |-> <<ToolMessage(<<"invalid tool input">>, <<call.id[1]>>)>>,
               audit |-> <<>>]
         ELSE LET r == IF call.name \in SearchTools
                       THEN search_tool(call.name, store, t)
                       ELSE consult_tokenomics_guide(exists, t)
              IN  [msgs |-> <<ToolMessage(r.content, call.id)>>, audit |-> r.audit]
    ELSE [msgs |-> <<ToolMessage(<<"Tool", call.name, "nao encontrada">>, call.id)>>,
          audit |-> <<>>]

\* The body of `for call in tool_calls` for one call: the messages appended to
\* the transient list and the audits appended by the tool.
DispatchOne(call, store, exists, t) ==
    IF call.name \in BoundTools
    THEN IF ~call.args_ok
         THEN \* tool_obj.invoke raises; the except branch answers the call
              [msgs |-> <<ToolMessage(<<"Erro ao executar tool", call.name, "invalid tool input">>,
                                      call.id)>>,
               audit |-> <<>>]
         ELSE LET r == IF call.name \in SearchTools
                       THEN search_tool(call.name, store, t)
                       ELSE consult_tokenomics_guide(exists, t)
              IN  [msgs |-> <<ToolMessage(r.content, call.id)>>, audit |-> r.audit]
    ELSE [msgs |-> <<ToolMessage(<<"Tool", call.name, "nao encontrada">>, call.id)>>,
          audit |-> <<>>]

\* _format_retriever_audits
FormatRetrieverAudits(as) ==
    [i \in 1..Len(as) |->
        LET audit == as[i]
            \* audit.get("results_with_scores", [])
            rws == IF "results_with_scores" \in DOMAIN audit
                   THEN audit.results_with_scores ELSE <<>>
        IN  [tool_name |-> audit.tool_name,
             k |-> IF "k" \in DOMAIN audit THEN audit.k ELSE 0,
             num_results |-> IF "num_results" \in DOMAIN audit THEN audit.num_results ELSE 0,
             chunks |-> [j \in 1..Len(rws) |->
                            [index |-> j, score |-> rws[j][2],
                             content |-> rws[j][1].page_content]],
             turn |-> audit.turn]]

\* Mutant of save_context: only the answer is stored.
save_context_answer_only(mem, q, answer) == Append(mem, AIMessage(answer, <<>>))

\* memory.save_context({"input": message}, {"output": answer})
save_context(mem, q, answer) == mem \o <<HumanMessage(q), AIMessage(answer, <<>>)>>

\* tokens_tracker.obter_resumo_por_componente(): the calls of each component.
por_componente(calls) ==
    [comp \in { calls[i].componente : i \in 1..Len(calls) } |->
        [chamadas |-> Len(SelectSeq(calls, LAMBDA c : c.componente = comp))]]

\* The dict returned when the response carries no tool call.
SuccessResult(answer, as, calls, it, llmc, toolc) ==
    [success |-> TRUE,
     response |-> answer,
     tokens |-> [total_chamadas |-> Len(calls), por_componente |-> por_componente(calls)],
     stats |-> [total_chamadas_llm |-> llmc,
                chamadas_neste_turno |-> llmc,
                total_retriever_calls |-> Len(as),
                iterations |-> it,
                tool_calls |-> toolc],
     retriever_audits |-> IF Len(as) > 0 THEN FormatRetrieverAudits(as) ELSE <<>>]

\* The dict returned after the while loop.
MaxIterationsResult ==
    [success |-> FALSE, response |-> ApologyMaxIterations, error |-> "max_iterations_reached"]

\* Mutant of ExceptionOutcome: the exception leaves chat.
ExceptionOutcome_propagates(e) == [pc |-> "raised", result |-> NoResult]

\* What `except Exception as e` of chat leaves: the position of the call and its result.
ExceptionOutcome(e) ==
    [pc |-> "returned",
     result |-> [success |-> FALSE, response |-> ApologyException, error |-> e]]

(***************************************************************************)
(* Initial state: a constructed agent.  load_vector_store may have failed, *)
(* which leaves vector_store = None.                                       *)
(***************************************************************************)
ChatInit ==
    /\ vector_store \in {"None", "loaded"}
    /\ guide_exists \in BOOLEAN
    /\ memory = <<>>
    /\ audits = <<>>
    /\ chamadas = <<>>
    /\ pc = "idle"
    /\ turn = 0
    /\ message = <<>>
    /\ messages = <<>>
    /\ iteration = 0
    /\ llm_call_count = 0
    /\ tool_call_count = 0
    /\ tool_calls = <<>>
    /\ call_idx = 0
    /\ result = NoResult
    /\ trace = <<>>

(***************************************************************************)
(* chat(message), up to the while loop.                                    *)
(***************************************************************************)
\* Mutant of ChatStart: the tracker is not reset for the new turn.
ChatStart_keeps_ledger(q, turns) ==
    /\ pc \in {"idle", "returned"}
    /\ turn < turns
    /\ turn' = turn + 1
    /\ message' = q
    /\ messages' = <<SystemMessage(<<"system prompt">>)>> \o memory \o <<HumanMessage(q)>>
    /\ iteration' = 0
    /\ llm_call_count' = 0
    /\ tool_call_count' = 0
    /\ tool_calls' = <<>>
    /\ call_idx' = 0
    /\ result' = NoResult
    /\ trace' = <<>>
    /\ pc' = "loop"
    /\ UNCHANGED <<vector_store, guide_exists, memory, audits, chamadas>>
    /\ UNCHANGED outsideChat

\* Mutant of ChatStart: a new turn starts with an empty audit list.
ChatStart_resets_audits(q, turns) ==
    /\ pc \in {"idle", "returned"}
    /\ turn < turns
    /\ turn' = turn + 1
    /\ message' = q
    /\ chamadas' = <<>>
    /\ messages' = <<SystemMessage(<<"system prompt">>)>> \o memory \o <<HumanMessage(q)>>
    /\ iteration' = 0
    /\ llm_call_count' = 0
    /\ tool_call_count' = 0
    /\ tool_calls' = <<>>
    /\ call_idx' = 0
    /\ result' = NoResult
    /\ trace' = <<>>
    /\ pc' = "loop"
    /\ audits' = <<>>
    /\ UNCHANGED <<vector_store, guide_exists, memory>>
    /\ UNCHANGED outsideChat

ChatStart(q, turns) ==
    /\ pc \in {"idle", "returned"}
    /\ turn < turns
    /\ turn' = turn + 1
    /\ message' = q
    /\ chamadas' = <<>>
    /\ messages' = <<SystemMessage(<<"system prompt">>)>> \o memory \o <<HumanMessage(q)>>
    /\ iteration' = 0
    /\ llm_call_count' = 0
    /\ tool_call_count' = 0
    /\ tool_calls' = <<>>
    /\ call_idx' = 0
    /\ result' = NoResult
    /\ trace' = <<>>
    /\ pc' = "loop"
    /\ UNCHANGED <<vector_store, guide_exists, memory, audits>>
    /\ UNCHANGED outsideChat

\* One pass of the while loop whose model call, or the token registration
\* after it, raises.
InvokeRaises(e) ==
    /\ pc = "loop"
    /\ LoopGuard(iteration, max_iterations)
    /\ iteration' = iteration + 1
    /\ llm_call_count' = llm_call_count + 1
    /\ trace' = Append(trace, "raise")
    /\ pc' = ExceptionOutcome(e).pc
    /\ result' = ExceptionOutcome(e).result
    /\ UNCHANGED <<vector_store, guide_exists, memory, audits, chamadas, turn, message,
                   messages, tool_call_count, tool_calls, call_idx>>
    /\ UNCHANGED outsideChat

\* One pass of the while loop whose response carries no tool call.
InvokeFinal(content) ==
    /\ pc = "loop"
    /\ LoopGuard(iteration, max_iterations)
    /\ iteration' = iteration + 1
    /\ llm_call_count' = llm_call_count + 1
    /\ chamadas' = Append(chamadas, [componente |-> "agente", turno |-> iteration'])
    /\ trace' = Append(trace, "final")
    /\ LET answer == content_to_text(content)
       IN  /\ memory' = save_context(memory, message, answer)
           /\ result' = SuccessResult(answer, audits, chamadas', iteration',
                                      llm_call_count', tool_call_count)
    /\ pc' = "returned"
    /\ UNCHANGED <<vector_store, guide_exists, audits, turn, message, messages,
                   tool_call_count, tool_calls, call_idx>>
    /\ UNCHANGED outsideChat

\* One pass of the while loop whose response carries no tool call and whose
\* memory.save_context raises: the call is registered, nothing is saved.
SaveRaises(e) ==
    /\ pc = "loop"
    /\ LoopGuard(iteration, max_iterations)
    /\ iteration' = iteration + 1
    /\ llm_call_count' = llm_call_count + 1
    /\ chamadas' = Append(chamadas, [componente |-> "agente", turno |-> iteration'])
    /\ trace' = Append(trace, "raise")
    /\ pc' = ExceptionOutcome(e).pc
    /\ result' = ExceptionOutcome(e).result
    /\ UNCHANGED <<vector_store, guide_exists, memory, audits, turn, message, messages,
                   tool_call_count, tool_calls, call_idx>>
    /\ UNCHANGED outsideChat

\* Mutant of InvokeToolCalls: the response with its tool calls is also stored
\* in memory.
InvokeToolCalls_saves(calls) ==
    /\ pc = "loop"
    /\ LoopGuard(iteration, max_iterations)
    /\ iteration' = iteration + 1
    /\ llm_call_count' = llm_call_count + 1
    /\ chamadas' = Append(chamadas, [componente |-> "agente", turno |-> iteration'])
    /\ trace' = Append(trace, "tools")
    /\ tool_call_count' = tool_call_count + 1
    /\ messages' = Append(messages, AIMessage(<<>>, calls))
    /\ tool_calls' = calls
    /\ call_idx' = 0
    /\ pc' = "dispatch"
    /\ memory' = Append(memory, AIMessage(<<>>, calls))
    /\ UNCHANGED <<vector_store, guide_exists, audits, turn, message, result>>
    /\ UNCHANGED outsideChat

\* One pass of the while loop whose response carries tool calls, up to the for loop.
InvokeToolCalls(calls) ==
    /\ pc = "loop"
    /\ LoopGuard(iteration, max_iterations)
    /\ iteration' = iteration + 1
    /\ llm_call_count' = llm_call_count + 1
    /\ chamadas' = Append(chamadas, [componente |-> "agente", turno |-> iteration'])
    /\ trace' = Append(trace, "tools")
    /\ tool_call_count' = tool_call_count + 1
    /\ messages' = Append(messages, AIMessage(<<>>, calls))
    /\ tool_calls' = calls
    /\ call_idx' = 0
    /\ pc' = "dispatch"
    /\ UNCHANGED <<vector_store, guide_exists, memory, audits, turn, message, result>>
    /\ UNCHANGED outsideChat

\* One pass of `for call in tool_calls`; after the last call the while loop
\* is back at its head.
DispatchCall ==
    /\ pc = "dispatch"
    /\ call_idx < Len(tool_calls)
    /\ LET d == DispatchOne(tool_calls[call_idx + 1], vector_store, guide_exists, turn)
       IN  /\ messages' = messages \o d.msgs
           /\ audits' = audits \o d.audit
    /\ call_idx' = call_idx + 1
    /\ pc' = IF call_idx' = Len(tool_calls) THEN "loop" ELSE "dispatch"
    /\ UNCHANGED <<vector_store, guide_exists, memory, chamadas, turn, message, iteration,
                   llm_call_count, tool_call_count, tool_calls, result, trace>>
    /\ UNCHANGED outsideChat

\* Mutant of ReturnMaxIterations: the unanswered question is stored.
ReturnMaxIterations_saves_question ==
    /\ pc = "loop"
    /\ ~LoopGuard(iteration, max_iterations)
    /\ result' = MaxIterationsResult
    /\ pc' = "returned"
    /\ memory' = Append(memory, HumanMessage(message))
    /\ UNCHANGED <<vector_store, guide_exists, audits, chamadas, turn, message,
                   messages, iteration, llm_call_count, tool_call_count, tool_calls,
                   call_idx, trace>>
    /\ UNCHANGED outsideChat

\* The while condition fails: the code after the loop.
ReturnMaxIterations ==
    /\ pc = "loop"
    /\ ~LoopGuard(iteration, max_iterations)
    /\ result' = MaxIterationsResult
    /\ pc' = "returned"
    /\ UNCHANGED <<vector_store, guide_exists, memory, audits, chamadas, turn, message,
                   messages, iteration, llm_call_count, tool_call_count, tool_calls,
                   call_idx, trace>>
    /\ UNCHANGED outsideChat

\* clear_memory, called between two chat calls.  The locals of the last chat
\* call and its result are gone by then.
ClearMemory ==
    /\ pc \in {"idle", "returned"}
    /\ memory' = <<>>
    /\ chamadas' = <<>>
    /\ audits' = <<>>
    /\ pc' = "idle"
    /\ result' = NoResult
    /\ message' = <<>>
    /\ messages' = <<>>
    /\ iteration' = 0
    /\ llm_call_count' = 0
    /\ tool_call_count' = 0
    /\ tool_calls' = <<>>
    /\ call_idx' = 0
    /\ trace' = <<>>
    /\ UNCHANGED <<vector_store, guide_exists, turn>>
    /\ UNCHANGED outsideChat

(***************************************************************************)
(* run_agent_turn_single_llm and its seletor background threads.           *)
(***************************************************************************)
FaRequestedNames == {"consultar_vector_store_retriever", "code_interpreter"}

\* The argument max_tool_calls: None (written -1), 0 or a positive limit.
MaxToolCallsValues == {-1, 0, 1}

\* The tool-call lists of the responses in SpecFA: one call per response.
FaCallLists(it) == { <<[name |-> n, id |-> <<it, 1>>]>> : n \in FaRequestedNames }

\* What _call_retriever_and_log does: it raises, or returns a list of chunks.
RetrieverOutcomes ==
    { [raised |-> TRUE, chunks |-> <<>>] }
        \cup { [raised |-> FALSE, chunks |-> c] : c \in {<<>>, <<"c1">>, <<"c1", "c2">>} }

Range(f) == { f[i] : i \in DOMAIN f }

\* What executar_seletor does: it returns success with the chunks it selected,
\* returns a failure, or raises.
SeletorOutcomes(chunks) ==
    { [kind |-> "success", selected |-> sel] : sel \in SUBSET Range(chunks) }
        \cup { [kind |-> "failure", selected |-> {}], [kind |-> "exception", selected |-> {}] }

LimitMessage == SystemMessage(<<"LIMIT_RETRIEVER_REACHED_MSG">>)

\* chunks_state.format_for_llm(): the message that carries the memorized chunks.
format_for_llm(pool) ==
    IF pool = {} THEN <<>> ELSE <<SystemMessage(<<"chunks relevantes", pool>>)>>

\* tools_metadata: the number of retriever calls it lists, and whether it has
\* a code_interpreter entry ("absent", "no_files", "files"). None and the
\* empty dict are NoMetadata.
NoMetadata == [retriever_calls |-> 0, code_interpreter |-> "absent"]

ToolsMetadata ==
    [retriever_calls : 0..2, code_interpreter : {"absent", "no_files", "files"}]

\* The tools_metadata run_agent_turn_single_llm builds in a turn without
\* code interpreter.
TurnMetadata(queries) ==
    [retriever_calls |-> IF Len(queries) > 2 THEN 2 ELSE Len(queries),
     code_interpreter |-> "absent"]

RECURSIVE JoinParts(_)
JoinParts(parts) ==
    IF Len(parts) = 0 THEN <<>>
    ELSE IF Len(parts) = 1 THEN <<parts[1]>>
    ELSE <<parts[1], " | ">> \o JoinParts(Tail(parts))

\* ConversationMemory._create_tool_memory_prefix: "[part | part]", or the
\* empty string when the metadata yields no part.
create_tool_memory_prefix(tools_metadata) ==
    LET parts == [i \in 1..tools_metadata.retriever_calls |-> "Consultei Retriever"]
                     \o (IF tools_metadata.code_interpreter = "files"
                         THEN <<"Gerei arquivos">> ELSE <<>>)
    IN  IF Len(parts) > 0 THEN <<"[">> \o JoinParts(parts) \o <<"]">> ELSE <<>>

\* ConversationMemory.add_user_message, on llm_history and on ui_messages.
add_user_message(history, q) == Append(history, HumanMessage(q))

add_user_message_ui(ui, q) == Append(ui, [role |-> "user", content |-> q])

\* Mutant of add_assistant_message_ui: the UI view gets the decorated content
\* of the model view.
add_assistant_message_ui_decorated(ui, content) ==
    Append(ui, [role |-> "assistant", content |-> <<"[", "]", "\n\n">> \o content])

\* ConversationMemory.add_assistant_message on ui_messages: always the clean
\* content.
add_assistant_message_ui(ui, content) ==
    Append(ui, [role |-> "assistant", content |-> content])

\* ConversationMemory.add_assistant_message on llm_history: the answer, behind
\* the tool memory prefix and a blank line when tools_metadata is truthy.
add_assistant_message(history, answer, tools_metadata) ==
    Append(history,
           AIMessage(IF tools_metadata # NoMetadata
                     THEN create_tool_memory_prefix(tools_metadata) \o <<"\n\n">> \o answer
                     ELSE answer,
                     <<>>))

\* chunks_state.adicionar_chunks: the selected chunks join the pool, a chunk
\* already in the pool is not added again.
adicionar_chunks(pool, selected) == pool \cup selected

\* Mutant of JoinReturns: the join on a previous thread never returns.
JoinReturns_never(prev, ws) == prev = 0

\* Mutant of JoinReturns: the thread does not wait for the previous one.
JoinReturns_no_wait(prev, ws) == TRUE

\* previous_thread.join() returns: there is no previous thread, or it has ended.
JoinReturns(prev, ws) == IF prev = 0 THEN TRUE ELSE ws[prev].status = "done"

\* while True
FaLoopGuard == TRUE

\* The soft limit check at the end of an iteration.
\* Mutant of LimitReached: the announcement already made is not looked at.
LimitReached_again(limit, queries, announced) ==
    limit >= 0 /\ Len(queries) >= limit

LimitReached(limit, queries, announced) ==
    limit >= 0 /\ Len(queries) >= limit /\ ~announced

\* The tokens_tracking of the result: the summaries of the turn's tracker,
\* computed when the result is built.
tokens_tracking(chamadas_) ==
    [resumo_componentes |->
        [comp \in { chamadas_[i].componente : i \in 1..Len(chamadas_) } |->
            [chamadas |-> Len(SelectSeq(chamadas_, LAMBDA c : c.componente = comp))]],
     resumo_total |-> [total_chamadas |-> Len(chamadas_)],
     tabela_detalhada |-> chamadas_]

NoFaResult == [answer |-> <<>>, iteration_count |-> 0, llm_call_count |-> 0,
               seletor_threads |-> <<>>, tokens_tracking |-> tokens_tracking(<<>>)]

FaIdle ==
    /\ fa_pc = "idle"
    /\ fa_turn = 0
    /\ max_tool_calls = -1
    /\ limit_announced = FALSE
    /\ fa_messages = <<>>
    /\ fa_iteration = 0
    /\ fa_llm_call_count = 0
    /\ fa_tool_call_count = 0
    /\ fa_tool_calls = <<>>
    /\ fa_call_idx = 0
    /\ retriever_queries = <<>>
    /\ anotador_threads = <<>>
    /\ anotador_count = 0
    /\ workers = <<>>
    /\ llm_history = <<>>
    /\ ui_messages = <<>>
    /\ chunks_pool = {}
    /\ selecoes = <<>>
    /\ fa_chamadas = <<>>
    /\ fa_result = NoFaResult

\* run_agent_turn_single_llm, up to the while loop.
FaStart(q, limit, turns) ==
    /\ fa_pc \in {"idle", "returned", "raised"}
    /\ fa_turn < turns
    /\ fa_turn' = fa_turn + 1
    /\ max_tool_calls' = limit
    /\ llm_history' = add_user_message(llm_history, q)
    /\ ui_messages' = add_user_message_ui(ui_messages, q)
    /\ limit_announced' = (limit = 0)
    /\ fa_messages' =
          <<SystemMessage(<<"SYSTEM_PROMPT">>), SystemMessage(<<"escopo">>)>>
              \o format_for_llm(chunks_pool)
              \o llm_history'
              \o (IF limit = 0 THEN <<LimitMessage>> ELSE <<>>)
    /\ fa_iteration' = 0
    /\ fa_llm_call_count' = 0
    /\ fa_tool_call_count' = 0
    /\ fa_tool_calls' = <<>>
    /\ fa_call_idx' = 0
    /\ retriever_queries' = <<>>
    /\ anotador_threads' = <<>>
    /\ anotador_count' = 0
    /\ fa_chamadas' = <<>>
    /\ fa_result' = NoFaResult
    /\ fa_pc' = "loop"
    /\ UNCHANGED <<workers, chunks_pool, selecoes>>
    /\ UNCHANGED outsideFa

\* One pass of `while True` whose model call raises: nothing in the function
\* catches it.
FaInvokeRaises ==
    /\ fa_pc = "loop"
    /\ FaLoopGuard
    /\ fa_llm_call_count < FaCallCap
    /\ fa_iteration' = fa_iteration + 1
    /\ fa_llm_call_count' = fa_llm_call_count + 1
    /\ fa_pc' = "raised"
    /\ UNCHANGED <<fa_turn, max_tool_calls, limit_announced, fa_messages, fa_tool_call_count,
                   fa_tool_calls, fa_call_idx, retriever_queries, anotador_threads,
                   anotador_count, workers, llm_history, ui_messages, chunks_pool, selecoes,
                   fa_chamadas, fa_result>>
    /\ UNCHANGED outsideFa

\* Mutant of FaInvokeFinal: the turn joins its seletor threads before it returns.
FaInvokeFinal_joins(content) ==
    /\ fa_pc = "loop"
    /\ FaLoopGuard
    /\ fa_llm_call_count < FaCallCap
    /\ \A i \in 1..Len(anotador_threads) : workers[anotador_threads[i]].status = "done"
    /\ fa_iteration' = fa_iteration + 1
    /\ fa_llm_call_count' = fa_llm_call_count + 1
    /\ fa_chamadas' = Append(fa_chamadas,
                             [componente |-> "analista", iteracao |-> fa_iteration'])
    /\ LET answer == content_to_text(content)
       IN  /\ llm_history' = add_assistant_message(llm_history, answer,
                                                   TurnMetadata(retriever_queries))
           /\ ui_messages' = add_assistant_message_ui(ui_messages, answer)
           /\ fa_result' = [answer |-> answer,
                            iteration_count |-> fa_tool_call_count,
                            llm_call_count |-> fa_llm_call_count',
                            seletor_threads |-> anotador_threads,
                            tokens_tracking |-> tokens_tracking(fa_chamadas')]
    /\ fa_pc' = "returned"
    /\ UNCHANGED <<fa_turn, max_tool_calls, limit_announced, fa_messages, fa_tool_call_count,
                   fa_tool_calls, fa_call_idx, retriever_queries, anotador_threads,
                   anotador_count, workers, chunks_pool, selecoes>>
    /\ UNCHANGED outsideFa

\* One pass of `while True` whose response carries no tool call: the answer
\* is stored and returned, the seletor threads are not awaited.
FaInvokeFinal(content) ==
    /\ fa_pc = "loop"
    /\ FaLoopGuard
    /\ fa_llm_call_count < FaCallCap
    /\ fa_iteration' = fa_iteration + 1
    /\ fa_llm_call_count' = fa_llm_call_count + 1
    /\ fa_chamadas' = Append(fa_chamadas,
                             [componente |-> "analista", iteracao |-> fa_iteration'])
    /\ LET answer == content_to_text(content)
       IN  /\ llm_history' = add_assistant_message(llm_history, answer,
                                                   TurnMetadata(retriever_queries))
           /\ ui_messages' = add_assistant_message_ui(ui_messages, answer)
           /\ fa_result' = [answer |-> answer,
                            iteration_count |-> fa_tool_call_count,
                            llm_call_count |-> fa_llm_call_count',
                            seletor_threads |-> anotador_threads,
                            tokens_tracking |-> tokens_tracking(fa_chamadas')]
    /\ fa_pc' = "returned"
    /\ UNCHANGED <<fa_turn, max_tool_calls, limit_announced, fa_messages, fa_tool_call_count,
                   fa_tool_calls, fa_call_idx, retriever_queries, anotador_threads,
                   anotador_count, workers, chunks_pool, selecoes>>
    /\ UNCHANGED outsideFa

\* The soft limit check that ends an iteration with tool calls.
\* Mutant of FaEndOfIteration: once the limit is announced the turn stops.
FaEndOfIteration_hard_stop(msgs, queries) ==
    /\ fa_messages' = IF LimitReached(max_tool_calls, queries, limit_announced)
                      THEN Append(msgs, LimitMessage)
                      ELSE msgs
    /\ limit_announced' = (limit_announced
                           \/ LimitReached(max_tool_calls, queries, limit_announced))
    /\ fa_pc' = IF limit_announced' THEN "returned" ELSE "loop"

FaEndOfIteration(msgs, queries) ==
    /\ fa_messages' = IF LimitReached(max_tool_calls, queries, limit_announced)
                      THEN Append(msgs, LimitMessage)
                      ELSE msgs
    /\ limit_announced' = (limit_announced
                           \/ LimitReached(max_tool_calls, queries, limit_announced))
    /\ fa_pc' = "loop"

\* One pass of `while True` whose response carries tool calls, up to the for loop.
\* Mutant of FaInvokeToolCalls: a response that asks for tools is not
\* registered in the tracker.
FaInvokeToolCalls_unregistered(calls) ==
    /\ fa_pc = "loop"
    /\ FaLoopGuard
    /\ fa_llm_call_count < FaCallCap
    /\ fa_iteration' = fa_iteration + 1
    /\ fa_llm_call_count' = fa_llm_call_count + 1
    /\ fa_messages' = Append(fa_messages, AIMessage(<<>>, calls))
    /\ fa_tool_call_count' = fa_tool_call_count + 1
    /\ fa_tool_calls' = calls
    /\ fa_call_idx' = 0
    /\ fa_pc' = "dispatch"
    /\ UNCHANGED <<fa_turn, max_tool_calls, limit_announced, retriever_queries,
                   anotador_threads, anotador_count, workers, llm_history, ui_messages, chunks_pool,
                   selecoes, fa_result, fa_chamadas>>
    /\ UNCHANGED outsideFa

FaInvokeToolCalls(calls) ==
    /\ fa_pc = "loop"
    /\ FaLoopGuard
    /\ fa_llm_call_count < FaCallCap
    /\ fa_iteration' = fa_iteration + 1
    /\ fa_llm_call_count' = fa_llm_call_count + 1
    /\ fa_chamadas' = Append(fa_chamadas,
                             [componente |-> "analista", iteracao |-> fa_iteration'])
    /\ fa_messages' = Append(fa_messages, AIMessage(<<>>, calls))
    /\ fa_tool_call_count' = fa_tool_call_count + 1
    /\ fa_tool_calls' = calls
    /\ fa_call_idx' = 0
    /\ fa_pc' = "dispatch"
    /\ UNCHANGED <<fa_turn, max_tool_calls, limit_announced, retriever_queries,
                   anotador_threads, anotador_count, workers, llm_history, ui_messages, chunks_pool,
                   selecoes, fa_result>>
    /\ UNCHANGED outsideFa

\* One pass of `for call in tool_calls` for a retriever call: the retriever
\* runs, its result is appended, and when it returned chunks a seletor thread
\* is started behind the last one of the turn.
FaDispatchRetriever(out) ==
    /\ fa_pc = "dispatch"
    /\ fa_call_idx < Len(fa_tool_calls)
    /\ fa_tool_calls[fa_call_idx + 1].name = "consultar_vector_store_retriever"
    /\ retriever_queries' = Append(retriever_queries, fa_iteration)
    /\ fa_call_idx' = fa_call_idx + 1
    /\ IF out.raised
       THEN /\ fa_pc' = "raised"
            /\ UNCHANGED <<limit_announced, fa_messages, anotador_threads, anotador_count,
                           workers, fa_chamadas>>
       ELSE /\ fa_chamadas' = fa_chamadas \o
                   <<[componente |-> "retriever_step1", iteracao |-> fa_iteration],
                     [componente |-> "retriever_step2", iteracao |-> fa_iteration]>>
            /\ IF Len(out.chunks) > 0
               THEN /\ anotador_count' = anotador_count + 1
                    /\ workers' = Append(workers,
                          [turn |-> fa_turn,
                           selecao |-> anotador_count',
                           iteration |-> fa_iteration,
                           chunks |-> out.chunks,
                           previous_thread |-> IF Len(anotador_threads) > 0
                                               THEN anotador_threads[Len(anotador_threads)]
                                               ELSE 0,
                           selected |-> {},
                           status |-> "started"])
                    /\ anotador_threads' = Append(anotador_threads, Len(workers'))
               ELSE UNCHANGED <<anotador_threads, anotador_count, workers>>
            /\ LET msgs == Append(fa_messages,
                                  ToolMessage(<<"chunks", out.chunks>>,
                                              fa_tool_calls[fa_call_idx + 1].id))
               IN  IF fa_call_idx' = Len(fa_tool_calls)
                   THEN FaEndOfIteration(msgs, retriever_queries')
                   ELSE /\ fa_messages' = msgs
                        /\ UNCHANGED <<limit_announced, fa_pc>>
    /\ UNCHANGED <<fa_turn, max_tool_calls, fa_iteration, fa_llm_call_count,
                   fa_tool_call_count, fa_tool_calls, llm_history, ui_messages, chunks_pool, selecoes,
                   fa_result>>
    /\ UNCHANGED outsideFa

\* One pass of `for call in tool_calls` for any other tool: answered "ignored".
FaDispatchOther ==
    /\ fa_pc = "dispatch"
    /\ fa_call_idx < Len(fa_tool_calls)
    /\ fa_tool_calls[fa_call_idx + 1].name # "consultar_vector_store_retriever"
    /\ fa_call_idx' = fa_call_idx + 1
    /\ LET msgs == Append(fa_messages,
                          ToolMessage(<<"status", "ignored">>,
                                      fa_tool_calls[fa_call_idx + 1].id))
       IN  IF fa_call_idx' = Len(fa_tool_calls)
           THEN FaEndOfIteration(msgs, retriever_queries)
           ELSE /\ fa_messages' = msgs
                /\ UNCHANGED <<limit_announced, fa_pc>>
    /\ UNCHANGED <<fa_turn, max_tool_calls, fa_iteration, fa_llm_call_count,
                   fa_tool_call_count, fa_tool_calls, retriever_queries, anotador_threads,
                   anotador_count, workers, llm_history, ui_messages, chunks_pool, selecoes,
                   fa_chamadas, fa_result>>
    /\ UNCHANGED outsideFa

(***************************************************************************)
(* _run_seletor_background, the body of a seletor thread w.                *)
(***************************************************************************)
SetStatus(w, st) == workers' = [workers EXCEPT ![w].status = st]

\* The thread gets past previous_thread.join() and calls executar_seletor.
SeletorJoin(w) ==
    /\ workers[w].status = "started"
    /\ JoinReturns(workers[w].previous_thread, workers)
    /\ SetStatus(w, "selecting")
    /\ UNCHANGED <<fa_pc, fa_turn, max_tool_calls, limit_announced, fa_messages,
                   fa_iteration, fa_llm_call_count, fa_tool_call_count, fa_tool_calls,
                   fa_call_idx, retriever_queries, anotador_threads, anotador_count,
                   llm_history, ui_messages, chunks_pool, selecoes, fa_chamadas, fa_result>>
    /\ UNCHANGED outsideFa

\* executar_seletor returns: on success the tokens are registered and the
\* thread goes on to the pool; otherwise it ends after its error event.
SeletorSelect(w, out) ==
    /\ workers[w].status = "selecting"
    /\ IF out.kind = "success"
       THEN /\ workers' = [workers EXCEPT ![w].status = "adding",
                                          ![w].selected = out.selected]
            /\ fa_chamadas' =
                  \* the tracker of the turn that started the thread
                  IF workers[w].turn = fa_turn
                  THEN Append(fa_chamadas,
                              [componente |-> "seletor", iteracao |-> workers[w].iteration])
                  ELSE fa_chamadas
       ELSE /\ SetStatus(w, "done")
            /\ UNCHANGED fa_chamadas
    /\ UNCHANGED <<fa_pc, fa_turn, max_tool_calls, limit_announced, fa_messages,
                   fa_iteration, fa_llm_call_count, fa_tool_call_count, fa_tool_calls,
                   fa_call_idx, retriever_queries, anotador_threads, anotador_count,
                   llm_history, ui_messages, chunks_pool, selecoes, fa_result>>
    /\ UNCHANGED outsideFa

\* memory.get_chunks_relevantes().adicionar_chunks(...), then the thread ends.
SeletorAdd(w) ==
    /\ workers[w].status = "adding"
    /\ chunks_pool' = adicionar_chunks(chunks_pool, workers[w].selected)
    /\ selecoes' = Append(selecoes,
          [turn |-> workers[w].turn, selecao |-> workers[w].selecao,
           iteracao |-> workers[w].iteration])
    /\ SetStatus(w, "done")
    /\ UNCHANGED <<fa_pc, fa_turn, max_tool_calls, limit_announced, fa_messages,
                   fa_iteration, fa_llm_call_count, fa_tool_call_count, fa_tool_calls,
                   fa_call_idx, retriever_queries, anotador_threads, anotador_count,
                   llm_history, ui_messages, fa_chamadas, fa_result>>
    /\ UNCHANGED outsideFa

(***************************************************************************)
(* ConversationMemory driven by calls of its methods in any order.         *)
(***************************************************************************)
MemoryTexts == { content_to_text(c) : c \in Contents }

MemAddUser(q) ==
    /\ fa_pc = "idle"
    /\ Len(llm_history) < MaxMemoryMessages
    /\ llm_history' = add_user_message(llm_history, q)
    /\ ui_messages' = add_user_message_ui(ui_messages, q)
    /\ UNCHANGED <<fa_pc, fa_turn, max_tool_calls, limit_announced, fa_messages, fa_iteration,
                   fa_llm_call_count, fa_tool_call_count, fa_tool_calls, fa_call_idx,
                   retriever_queries, anotador_threads, anotador_count, workers, chunks_pool,
                   selecoes, fa_chamadas, fa_result>>
    /\ UNCHANGED outsideFa

MemAddAssistant(content, tools_metadata) ==
    /\ fa_pc = "idle"
    /\ Len(llm_history) < MaxMemoryMessages
    /\ ui_messages' = add_assistant_message_ui(ui_messages, content)
    /\ llm_history' = add_assistant_message(llm_history, content, tools_metadata)
    /\ UNCHANGED <<fa_pc, fa_turn, max_tool_calls, limit_announced, fa_messages, fa_iteration,
                   fa_llm_call_count, fa_tool_call_count, fa_tool_calls, fa_call_idx,
                   retriever_queries, anotador_threads, anotador_count, workers, chunks_pool,
                   selecoes, fa_chamadas, fa_result>>
    /\ UNCHANGED outsideFa

\* ConversationMemory.clear
MemClear ==
    /\ fa_pc = "idle"
    /\ llm_history' = <<>>
    /\ ui_messages' = <<>>
    /\ chunks_pool' = {}
    /\ UNCHANGED <<fa_pc, fa_turn, max_tool_calls, limit_announced, fa_messages, fa_iteration,
                   fa_llm_call_count, fa_tool_call_count, fa_tool_calls, fa_call_idx,
                   retriever_queries, anotador_threads, anotador_count, workers,
                   selecoes, fa_chamadas, fa_result>>
    /\ UNCHANGED outsideFa

(***************************************************************************)
(* utils/pricing.py.  Token counts are in thousands of tokens, prices in   *)
(* thousandths of a dollar per million tokens and costs in millionths of a *)
(* dollar (count times price), so that the arithmetic is exact and stays   *)
(* within 32 bits; float rounding is not modelled.                         *)
(***************************************************************************)
PRICING_OPENAI ==
       "gpt-5" :> [input |-> 1250, cached_input |-> 125, output |-> 10000]
    @@ "gpt-5-mini" :> [input |-> 250, cached_input |-> 25, output |-> 2000]
    @@ "gpt-5-nano" :> [input |-> 50, cached_input |-> 5, output |-> 400]
    @@ "gpt-5-chat-latest" :> [input |-> 1250, cached_input |-> 125, output |-> 10000]
    @@ "gpt-5-codex" :> [input |-> 1250, cached_input |-> 125, output |-> 10000]
    @@ "gpt-5-pro" :> [input |-> 15000, output |-> 120000]
    @@ "gpt-4.1" :> [input |-> 2000, cached_input |-> 500, output |-> 8000]
    @@ "gpt-4.1-mini" :> [input |-> 400, cached_input |-> 100, output |-> 1600]
    @@ "gpt-4.1-nano" :> [input |-> 100, cached_input |-> 25, output |-> 400]
    @@ "gpt-4o" :> [input |-> 2500, cached_input |-> 1250, output |-> 10000]
    @@ "gpt-4o-mini" :> [input |-> 150, cached_input |-> 75, output |-> 600]
    @@ "o1" :> [input |-> 15000, cached_input |-> 7500, output |-> 60000]
    @@ "o1-pro" :> [input |-> 150000, output |-> 600000]
    @@ "o3" :> [input |-> 2000, cached_input |-> 500, output |-> 8000]
    @@ "o3-pro" :> [input |-> 20000, output |-> 80000]
    @@ "o3-deep-research" :> [input |-> 10000, cached_input |-> 2500, output |-> 40000]
    @@ "gpt-4" :> [input |-> 30000, output |-> 60000]
    @@ "gpt-4-32k" :> [input |-> 60000, output |-> 120000]
    @@ "gpt-4-turbo" :> [input |-> 10000, output |-> 30000]
    @@ "gpt-4-turbo-preview" :> [input |-> 10000, output |-> 30000]

PRICING_ANTHROPIC ==
       "claude-opus-4.1" :> [input |-> 15000, cache_write_5m |-> 18750,
          cache_write_1h |-> 30000, cache_read |-> 1500, output |-> 75000]
    @@ "claude-opus-4" :> [input |-> 15000, cache_write_5m |-> 18750,
          cache_write_1h |-> 30000, cache_read |-> 1500, output |-> 75000]
    @@ "claude-opus-3" :> [input |-> 15000, cache_write_5m |-> 18750,
          cache_write_1h |-> 30000, cache_read |-> 1500, output |-> 75000]
    @@ "claude-sonnet-4.5" :> [input |-> 3000, cache_write_5m |-> 3750,
          cache_write_1h |-> 6000, cache_read |-> 300, output |-> 15000]
    @@ "claude-sonnet-4" :> [input |-> 3000, cache_write_5m |-> 3750,
          cache_write_1h |-> 6000, cache_read |-> 300, output |-> 15000]
    @@ "claude-sonnet-3.7" :> [input |-> 3000, cache_write_5m |-> 3750,
          cache_write_1h |-> 6000, cache_read |-> 300, output |-> 15000]
    @@ "claude-haiku-4.5" :> [input |-> 1000, cache_write_5m |-> 1250,
          cache_write_1h |-> 2000, cache_read |-> 100, output |-> 5000]
    @@ "claude-haiku-3.5" :> [input |-> 800, cache_write_5m |-> 1000,
          cache_write_1h |-> 1600, cache_read |-> 80, output |-> 4000]
    @@ "claude-haiku-3" :> [input |-> 250, cache_write_5m |-> 300,
          cache_write_1h |-> 500, cache_read |-> 30, output |-> 1250]

MODEL_ALIASES ==
       "gpt-5-2025-08-07" :> "gpt-5"
    @@ "gpt-5-mini-2025-08-07" :> "gpt-5-mini"
    @@ "gpt-5-pro-2025-10-06" :> "gpt-5-pro"
    @@ "o3-2025-04-16" :> "o3"
    @@ "o3-pro-2025-06-10" :> "o3-pro"
    @@ "claude-opus-4-20241120" :> "claude-opus-4"
    @@ "claude-opus-4.1-20250101" :> "claude-opus-4.1"
    @@ "claude-sonnet-4-20241120" :> "claude-sonnet-4"
    @@ "claude-sonnet-4-5-20250929" :> "claude-sonnet-4.5"
    @@ "claude-sonnet-3-7-20240620" :> "claude-sonnet-3.7"
    @@ "claude-haiku-4-5-20250301" :> "claude-haiku-4.5"
    @@ "claude-haiku-4-5-20251001" :> "claude-haiku-4.5"
    @@ "claude-haiku-3-5-20240307" :> "claude-haiku-3.5"
    @@ "claude-haiku-3-20240229" :> "claude-haiku-3"
    @@ "claude_opus_4" :> "claude-opus-4"
    @@ "claude_sonnet_4_5" :> "claude-sonnet-4.5"
    @@ "claude_haiku_3_5" :> "claude-haiku-3.5"

\* PRICING_ALL = {**PRICING_OPENAI, **PRICING_ANTHROPIC}
PRICING_ALL == PRICING_ANTHROPIC @@ PRICING_OPENAI

\* A model name is the sequence of its parts between "/" ("openai/gpt-5" is
\* <<"openai", "gpt-5">>, the empty string is <<>>).
NomesDesconhecidos == {"modelo-desconhecido", "claude-desconhecido"}

ModelArgs ==
    { <<n>> : n \in DOMAIN PRICING_ALL \cup DOMAIN MODEL_ALIASES \cup NomesDesconhecidos }
        \cup { <<>>, <<"openai", "gpt-5-mini">>, <<"anthropic", "claude-sonnet-4-5-20250929">>,
               <<"openai", "modelo-desconhecido">> }

\* The names that start with "claude", and those that start with "gpt", "o1" or "o3".
StartsWithClaude(name) ==
    name \in DOMAIN PRICING_ANTHROPIC \cup {"claude-desconhecido"}
        \cup {a \in DOMAIN MODEL_ALIASES : MODEL_ALIASES[a] \in DOMAIN PRICING_ANTHROPIC}

StartsWithOpenAI(name) ==
    name \in DOMAIN PRICING_OPENAI
        \cup {a \in DOMAIN MODEL_ALIASES : MODEL_ALIASES[a] \in DOMAIN PRICING_OPENAI}

\* Mutant of normalizar_nome_modelo: a name that had a provider prefix is
\* returned without it, aliases unresolved.
normalizar_nome_modelo_prefix_only(model) ==
    IF Len(model) = 0 THEN <<"claude-sonnet-4.5">>
    ELSE IF Len(model) > 1 THEN Tail(model)
    ELSE IF model[1] \in DOMAIN MODEL_ALIASES THEN <<MODEL_ALIASES[model[1]]>>
    ELSE model

normalizar_nome_modelo(model) ==
    IF Len(model) = 0 THEN <<"claude-sonnet-4.5">>
    ELSE LET m == IF Len(model) > 1 THEN Tail(model) ELSE model
         IN  IF Len(m) = 1 /\ m[1] \in DOMAIN MODEL_ALIASES
             THEN <<MODEL_ALIASES[m[1]]>>
             ELSE m

detectar_provider(model) ==
    LET model_norm == normalizar_nome_modelo(model)
    IN  IF StartsWithClaude(model_norm[1]) THEN "anthropic"
        ELSE IF StartsWithOpenAI(model_norm[1]) THEN "openai"
        ELSE "unknown"

\* obter_precos_modelo: <<>> stands for None, <<precos>> for a table entry.
obter_precos_modelo(model) ==
    LET model_norm == normalizar_nome_modelo(model)
    IN  IF Len(model_norm) = 1 /\ model_norm[1] \in DOMAIN PRICING_ALL
        THEN <<PRICING_ALL[model_norm[1]]>>
        ELSE <<>>

\* A token record holds the five counts calcular_custo reads, in thousands
\* of tokens; a key that is absent from the dict reads as 0.
TokenDomain ==
    [input |-> {0, 5, 10},
     output |-> {0, 2},
     reasoning |-> {0, 1},
     cache_creation_input_tokens |-> {0, 5},
     cache_read_input_tokens |-> {0, 2, 10}]

TokenFields == DOMAIN TokenDomain

TokenRecords ==
    [input : TokenDomain.input,
     output : TokenDomain.output,
     reasoning : TokenDomain.reasoning,
     cache_creation_input_tokens : TokenDomain.cache_creation_input_tokens,
     cache_read_input_tokens : TokenDomain.cache_read_input_tokens]

NoTokens ==
    [input |-> 0, output |-> 0, reasoning |-> 0, cache_creation_input_tokens |-> 0,
     cache_read_input_tokens |-> 0]

\* Mutant of input_normal: the cached tokens are not taken off the input.
input_normal_total(input_tokens, cache_creation, cache_read) == input_tokens

\* input_normal = input_tokens - cache_creation - cache_read
input_normal(input_tokens, cache_creation, cache_read) ==
    input_tokens - cache_creation - cache_read

\* Mutant of preco_cache_write: cache creation is billed at the cache read rate.
preco_cache_write_as_read(precos) == precos.cache_read

\* precos.get("cache_write_5m", precos["input"])
preco_cache_write(precos) ==
    IF "cache_write_5m" \in DOMAIN precos THEN precos.cache_write_5m ELSE precos.input

custo_anthropic(tokens, precos) ==
    LET cache_creation == tokens.cache_creation_input_tokens
        cache_read == tokens.cache_read_input_tokens
        normal == input_normal(tokens.input, cache_creation, cache_read)
    IN  (IF normal > 0 THEN normal * precos.input ELSE 0)
        + (IF cache_creation > 0 THEN cache_creation * preco_cache_write(precos) ELSE 0)
        + (IF cache_read > 0 THEN cache_read * precos.cache_read ELSE 0)
        + tokens.output * precos.output

custo_openai(tokens, precos, use_cached) ==
    LET preco_input == IF use_cached /\ "cached_input" \in DOMAIN precos
                       THEN precos.cached_input
                       ELSE precos.input
    IN  tokens.input * preco_input
        + tokens.output * precos.output
        + (IF tokens.reasoning > 0 THEN tokens.reasoning * precos.output ELSE 0)

\* Mutant of custo_desconhecido: an unknown model is billed at a default rate.
custo_desconhecido_default(tokens) == tokens.input + tokens.output

\* if not precos: ... return 0.0
custo_desconhecido(tokens) == 0

calcular_custo(tokens, model, use_cached) ==
    LET precos == obter_precos_modelo(model)
    IN  IF Len(precos) = 0 THEN custo_desconhecido(tokens)
        ELSE IF detectar_provider(model) = "anthropic"
             THEN custo_anthropic(tokens, precos[1])
             ELSE custo_openai(tokens, precos[1], use_cached)

PrIdle ==
    /\ pr_pc = "idle"
    /\ pr_model = <<>>
    /\ pr_tokens = NoTokens
    /\ pr_use_cached = FALSE
    /\ pr_custo = 0
    /\ pr_campo = "none"
    /\ pr_custo_antes = 0

\* A caller about to call calcular_custo(tokens, model).
PrInput ==
    /\ pr_pc = "input"
    /\ pr_model \in ModelArgs
    /\ pr_tokens \in TokenRecords
    /\ pr_use_cached = FALSE
    /\ pr_custo = 0
    /\ pr_campo = "none"
    /\ pr_custo_antes = 0

\* calcular_custo(tokens, model, use_cached)
Calcular(use_cached) ==
    /\ pr_pc = "input"
    /\ pr_use_cached' = use_cached
    /\ pr_custo' = calcular_custo(pr_tokens, pr_model, use_cached)
    /\ pr_pc' = "computed"
    /\ UNCHANGED <<pr_model, pr_tokens, pr_campo, pr_custo_antes>>
    /\ UNCHANGED outsidePricing

\* calcular_custo called again on the same record with one count raised.
CalcularMais(campo, v) ==
    /\ pr_pc = "computed"
    /\ v \in TokenDomain[campo]
    /\ v > pr_tokens[campo]
    /\ pr_tokens' = [pr_tokens EXCEPT ![campo] = v]
    /\ pr_custo' = calcular_custo(pr_tokens', pr_model, pr_use_cached)
    /\ pr_campo' = campo
    /\ pr_custo_antes' = pr_custo
    /\ UNCHANGED <<pr_pc, pr_model, pr_use_cached>>
    /\ UNCHANGED outsidePricing

(***************************************************************************)
(* utils/tokens_tracker.py: registrar_chamada called by several threads on *)
(* one TokensTracker.                                                      *)
(***************************************************************************)
Callers == 1..MaxCallers

Componentes == {"analista", "seletor"}

TrackerModels == {<<"claude-sonnet-4.5">>, <<"gpt-5-mini-2025-08-07">>, <<"modelo-desconhecido">>}

\* The token records of the calls: the five counts and total (0 when the
\* record has no total).
TrackerTokens ==
    { [input |-> 10, output |-> 2, reasoning |-> 1, cache_creation_input_tokens |-> 0,
       cache_read_input_tokens |-> 0, total |-> 0],
      [input |-> 10, output |-> 2, reasoning |-> 0, cache_creation_input_tokens |-> 5,
       cache_read_input_tokens |-> 2, total |-> 12],
      [input |-> 10, output |-> 2, reasoning |-> 0, cache_creation_input_tokens |-> 5,
       cache_read_input_tokens |-> 2, total |-> 0] }

calcular_custo_detalhado(tokens, model) ==
    LET precos == obter_precos_modelo(model)
    IN  IF Len(precos) = 0 THEN [total |-> 0]
        ELSE IF detectar_provider(model) = "anthropic"
        THEN LET cache_creation == tokens.cache_creation_input_tokens
                 cache_read == tokens.cache_read_input_tokens
                 normal == tokens.input - cache_creation - cache_read
                 in == IF normal > 0 THEN normal * precos[1].input ELSE 0
                 out == tokens.output * precos[1].output
                 cc == IF cache_creation > 0
                       THEN cache_creation * (IF "cache_write_5m" \in DOMAIN precos[1]
                                              THEN precos[1].cache_write_5m ELSE 0)
                       ELSE 0
                 cr == IF cache_read > 0 THEN cache_read * precos[1].cache_read ELSE 0
             IN  [input |-> in, output |-> out, cache_creation |-> cc, cache_read |-> cr,
                  total |-> in + out + cc + cr]
        ELSE LET in == tokens.input * precos[1].input
                 out == tokens.output * precos[1].output
                 re == tokens.reasoning * precos[1].output
             IN  IF tokens.reasoning > 0
                 THEN [input |-> in, output |-> out, reasoning |-> re, total |-> in + out + re]
                 ELSE [input |-> in, output |-> out, total |-> in + out]

\* Total de tokens (usa 'total' se existir, senao calcula)
total_tokens(tokens) ==
    IF tokens.total > 0 THEN tokens.total
    ELSE tokens.input + tokens.output + tokens.reasoning

\* The dict `chamada` built by registrar_chamada; caller names the thread
\* that built it (history information).
chamada_de(caller, componente, model, tokens) ==
    [caller |-> caller,
     componente |-> componente,
     model |-> model,
     tokens |-> [input |-> tokens.input,
                 output |-> tokens.output,
                 reasoning |-> tokens.reasoning,
                 cache_creation |-> tokens.cache_creation_input_tokens,
                 cache_read |-> tokens.cache_read_input_tokens,
                 total |-> total_tokens(tokens)],
     custo |-> calcular_custo(tokens, model, FALSE),
     custo_detalhado |-> calcular_custo_detalhado(tokens, model)]

\* Mutant of list_append: the list is written back as it was when the call
\* of registrar_chamada began, with the item added.
list_append_stale(lista, visto, item) == Append(visto, item)

\* self.chamadas.append(chamada): one atomic operation of the interpreter on
\* the list as it is now (visto is the list as the call first saw it).
list_append(lista, visto, item) == Append(lista, item)

NoCall == [pc |-> "idle", tokens |-> <<>>, visto |-> <<>>, chamada |-> <<>>]

TrIdle ==
    /\ tr_chamadas = <<>>
    /\ tr_calls = [t \in Callers |-> NoCall]
    /\ tr_registros = 0

\* registrar_chamada up to the append: the cost and the entry are computed.
RegistrarBuild(t, componente, model, tokens) ==
    /\ tr_calls[t].pc = "idle"
    /\ tr_calls' = [tr_calls EXCEPT ![t] =
                       [pc |-> "built",
                        tokens |-> tokens,
                        visto |-> tr_chamadas,
                        chamada |-> chamada_de(t, componente, model, tokens)]]
    /\ UNCHANGED <<tr_chamadas, tr_registros>>
    /\ UNCHANGED outsideTracker

\* self.chamadas.append(chamada), and the call returns.
RegistrarAppend(t) ==
    /\ tr_calls[t].pc = "built"
    /\ tr_chamadas' = list_append(tr_chamadas, tr_calls[t].visto, tr_calls[t].chamada)
    /\ tr_calls' = [tr_calls EXCEPT ![t].pc = "done"]
    /\ tr_registros' = tr_registros + 1
    /\ UNCHANGED outsideTracker

(***************************************************************************)
(* Functions applied on their own.                                         *)
(***************************************************************************)
FnIdle ==
    /\ fn_name = "none"
    /\ fn_args = <<>>
    /\ fn_results = <<>>

\* Names given to normalizar_nome_modelo: those of ModelArgs, every alias
\* behind a provider prefix, and one name with two slashes.
NormArgs ==
    ModelArgs
        \cup { <<p, a>> : p \in {"openai", "anthropic"}, a \in DOMAIN MODEL_ALIASES }
        \cup { <<"proxy", "openai", "gpt-5-2025-08-07">> }

NormalizarInput ==
    /\ fn_name = "normalizar_nome_modelo"
    /\ fn_args \in NormArgs
    /\ fn_results = <<>>

\* normalizar_nome_modelo(model)
Normalizar ==
    /\ fn_name = "normalizar_nome_modelo"
    /\ Len(fn_results) = 0
    /\ fn_results' = <<normalizar_nome_modelo(fn_args)>>
    /\ UNCHANGED <<fn_name, fn_args>>
    /\ UNCHANGED outsideFn

\* normalizar_nome_modelo applied to the name it returned.
NormalizarDeNovo ==
    /\ fn_name = "normalizar_nome_modelo"
    /\ Len(fn_results) = 1
    /\ fn_results' = Append(fn_results, normalizar_nome_modelo(fn_results[1]))
    /\ UNCHANGED <<fn_name, fn_args>>
    /\ UNCHANGED outsideFn

\* The arguments of a search_with_audit call and what the index holds for its
\* query; k = 0 is the default k=None.
SearchArgs ==
    [store : {"None", "loaded"}, k : {0, 1, 2, top_k_results}, matches : MatchLists]

SearchInput ==
    /\ fn_name = "search_with_audit"
    /\ fn_args \in SearchArgs
    /\ fn_results = <<>>

\* search_with_audit(query, k, tool_name=...)
SearchWithAudit ==
    /\ fn_name = "search_with_audit"
    /\ Len(fn_results) = 0
    /\ fn_results' = <<search_with_audit(fn_args.store, fn_args.k, "search_general", 0,
                                         fn_args.matches)>>
    /\ UNCHANGED <<fn_name, fn_args>>
    /\ UNCHANGED outsideFn

\* K_TOOL_RESULTS of finance_ai_config, the "40 resultados fixos" of the
\* retriever tool.
K_TOOL_RESULTS == 40

\* The arguments a model puts in a tool call: a query and, when k # 0, a k.
ToolArgs == [query : {"q1", "q2", "q3"}, k : {0, 1, 50, 100}]

\* tool_obj.invoke(tool_args) of a Tool whose function takes the query alone.
single_input(args) == args.k = 0

\* RegenerationCreditAgent.chat dispatching one call of a RAGTools tool: the
\* k of every request it sends to the index.
chat_requested_k(name, args) ==
    LET d == DispatchOne([name |-> name, args_ok |-> single_input(args), id |-> <<1, 1>>],
                         "loaded", TRUE, 0)
    IN  [i \in 1..Len(d.audit) |-> d.audit[i].k]

\* Mutant of fa_requested_k: a k among the arguments is passed on.
fa_requested_k_from_args(args) == <<IF args.k # 0 THEN args.k ELSE K_TOOL_RESULTS>>

\* run_agent_turn_single_llm dispatching one retriever call:
\* _call_retriever_and_log(query=args.get("query")) calls _rq(k=K_TOOL_RESULTS).
fa_requested_k(args) == <<K_TOOL_RESULTS>>

requested_k(name, args) ==
    IF name \in SearchTools THEN chat_requested_k(name, args) ELSE fa_requested_k(args)

\* Two calls of one retrieval tool that differ in their arguments.
RequestInput ==
    /\ fn_name \in SearchTools \cup {"consultar_vector_store_retriever"}
    /\ fn_args \in { p \in [first : ToolArgs, second : ToolArgs] : p.first # p.second }
    /\ fn_results = <<>>

RequestFirst ==
    /\ fn_name \in SearchTools \cup {"consultar_vector_store_retriever"}
    /\ Len(fn_results) = 0
    /\ fn_results' = <<requested_k(fn_name, fn_args.first)>>
    /\ UNCHANGED <<fn_name, fn_args>>
    /\ UNCHANGED outsideFn

RequestSecond ==
    /\ fn_name \in SearchTools \cup {"consultar_vector_store_retriever"}
    /\ Len(fn_results) = 1
    /\ fn_results' = Append(fn_results, requested_k(fn_name, fn_args.second))
    /\ UNCHANGED <<fn_name, fn_args>>
    /\ UNCHANGED outsideFn

(***************************************************************************)
(* retriever_query of scripts_exemplos/consultar_vector_store_retriever.py:*)
(* from the answer of the stage-2 model to the headings_enriched clause of *)
(* the filter sent to the index.  A value of the answer is a record of its *)
(* Python type, its number, its text, and whether str(value).isdigit().    *)
(***************************************************************************)
PyInt(n) == [py |-> "int", n |-> n, s |-> "", digits |-> n >= 0]
PyDigits(n) == [py |-> "str", n |-> n, s |-> "", digits |-> TRUE]
PyText(s) == [py |-> "str", n |-> 0, s |-> s, digits |-> FALSE]
PyFloat(n) == [py |-> "float", n |-> n, s |-> "", digits |-> FALSE]

\* str(x)
str(x) == IF x.py = "str" THEN x ELSE [py |-> "str", n |-> x.n, s |-> "", digits |-> x.py = "int" /\ x.n >= 0]

EXCLUDED_HEADINGS_NORM == {"cabecalho"}

\* by_key restricted to the documents selected in stage 1: the headings of
\* each document, in the order of the index.
DocHeadings ==
    { <<>>,
      <<<<"DRE", "Balanco">>>>,
      <<<<"DRE", "Balanco">>, <<"cabecalho", "DRE", "Fluxo de Caixa">>>> }

filter_excluded(headings) == SelectSeq(headings, LAMBDA h : h \notin EXCLUDED_HEADINGS_NORM)

\* The headings of the selected documents that are excluded.
excluded_exact_values(by_key) ==
    UNION { { by_key[d][i] : i \in 1..Len(by_key[d]) } : d \in 1..Len(by_key) }
        \cap EXCLUDED_HEADINGS_NORM

\* _build_headings_with_ids: id_to_heading, the heading of ID i at index i.
RECURSIVE build_headings_with_ids(_)
build_headings_with_ids(doc_to_headings) ==
    IF Len(doc_to_headings) = 0 THEN <<>>
    ELSE build_headings_with_ids(SubSeq(doc_to_headings, 1, Len(doc_to_headings) - 1))
             \o doc_to_headings[Len(doc_to_headings)]

\* What the stage-2 model can put in a list of heading IDs.
Items ==
    { PyInt(1), PyInt(2), PyInt(9), PyInt(0), PyInt(-1),
      PyDigits(1), PyDigits(9), PyText("DRE"), PyText("Inexistente"), PyFloat(1) }

\* filters["headings_enriched"] of the stage-2 answer: absent, a string, a
\* dict whose "$in" is a list, a dict whose "$in" is a string, or a dict with
\* "$eq"; excluded is the set of a "$nin" clause.
Clause(kind, items, excluded) == [kind |-> kind, items |-> items, excluded |-> excluded]

NoClause == Clause("absent", <<>>, {})

HeadingsEnriched ==
    { NoClause,
      Clause("str", <<PyText("DRE")>>, {}),
      Clause("$in str", <<PyText("DRE")>>, {}),
      Clause("$eq", <<PyText("Inexistente")>>, {}) }
        \cup { Clause("$in", items, {}) : items \in UNION { [1..n -> Items] : n \in 0..MaxIds } }

\* int(x) if isinstance(x, (int, str)) and str(x).isdigit() else -1
to_id(x) == IF x.py \in {"int", "str"} /\ x.digits THEN x.n ELSE -1

requested_ids(he) ==
    IF he.kind = "$in"
    THEN SelectSeq([i \in 1..Len(he.items) |-> to_id(he.items[i])], LAMBDA x : x > 0)
    ELSE <<>>

\* Mutant of validated_headings: an ID outside the map is kept as a heading.
validated_headings_unchecked(ids, id_to_heading) ==
    [i \in 1..Len(ids) |->
        IF ids[i] \in 1..Len(id_to_heading) THEN id_to_heading[ids[i]] ELSE "Inexistente"]

\* The headings of the requested IDs that are in id_to_heading.
validated_headings(ids, id_to_heading) ==
    LET known == SelectSeq(ids, LAMBDA x : x \in 1..Len(id_to_heading))
    IN  [i \in 1..Len(known) |-> id_to_heading[known[i]]]

\* sanitize_where on the headings_enriched clause.
sanitize_where(clause) ==
    IF clause.kind \in {"$in", "$nin", "$eq"} THEN clause ELSE NoClause

\* The headings_enriched clause of chroma_where_final; or_wins tells that the
\* index counted no candidate for the "$in" filter and some for the "$or" one.
headings_filter(by_key, he, or_wins) ==
    LET doc_to_headings == [d \in 1..Len(by_key) |-> filter_excluded(by_key[d])]
        id_to_heading == build_headings_with_ids(doc_to_headings)
        requested == requested_ids(he)
        validated == validated_headings(requested, id_to_heading)
        raw == IF Len(requested) > 0 /\ Len(validated) = 0 THEN NoClause
               ELSE IF Len(validated) > 0
               THEN Clause("$in", [i \in 1..Len(validated) |-> PyText(validated[i])], {})
               ELSE he
        base == IF raw.kind = "absent" /\ excluded_exact_values(by_key) # {}
                THEN Clause("$nin", <<>>, excluded_exact_values(by_key))
                ELSE raw
        where_in == sanitize_where(base)
    IN  IF base.kind = "$in" /\ Len(base.items) > 1 /\ or_wins
        THEN Clause("$or", [i \in 1..Len(base.items) |-> str(base.items[i])], {})
        ELSE where_in

RetrieverQueryInput ==
    /\ fn_name = "retriever_query"
    /\ fn_args \in [by_key : DocHeadings, headings_enriched : HeadingsEnriched,
                     or_wins : BOOLEAN]
    /\ fn_results = <<>>

\* retriever_query, from the stage-2 answer to the filter of the search.
RetrieverQuery ==
    /\ fn_name = "retriever_query"
    /\ Len(fn_results) = 0
    /\ fn_results' = <<headings_filter(fn_args.by_key, fn_args.headings_enriched,
                                       fn_args.or_wins)>>
    /\ UNCHANGED <<fn_name, fn_args>>
    /\ UNCHANGED outsideFn

(***************************************************************************)
(* extract_token_usage of agents/main_agent.py and of                      *)
(* scripts_exemplos/finance_ai_utils.py.  A Python value is a record of    *)
(* its type and content; a dict or an object is a function from the keys   *)
(* below to values, PyAbsent marking a key or attribute it does not have.  *)
(***************************************************************************)
\* Values inside a nested dict, values inside a dict or object, and the
\* values of the attributes usage_metadata and usage.
Leaf(py, n) == [py |-> py, n |-> n]

UsageKeys ==
    {"input_tokens", "output_tokens", "total_tokens", "reasoning_tokens",
     "output_token_details", "cache_creation_input_tokens", "cache_read_input_tokens",
     "model_name", "reasoning", "prompt_tokens", "completion_tokens"}

NoLeaves == [k \in UsageKeys |-> Leaf("absent", 0)]

Inner(py, n, d) == [py |-> py, n |-> n, d |-> d]

Empty == [k \in UsageKeys |-> Inner("absent", 0, NoLeaves)]

InnerNone == Inner("None", 0, NoLeaves)
InnerInt(n) == Inner("int", n, NoLeaves)
InnerStr == Inner("str", 0, NoLeaves)

PyAbsent == [py |-> "absent", n |-> 0, d |-> Empty]
PyNone == [py |-> "None", n |-> 0, d |-> Empty]
PyDict(d) == [py |-> "dict", n |-> 0, d |-> d]
PyObject(d) == [py |-> "object", n |-> 0, d |-> d]

\* Defaults of get and getattr.
Zero == Leaf("int", 0)
None == Leaf("None", 0)

\* bool(value)
Truthy(x) ==
    CASE x.py \in {"absent", "None"} -> FALSE
      [] x.py = "int" -> x.n # 0
      [] x.py = "dict" -> \E k \in UsageKeys : x.d[k].py # "absent"
      [] OTHER -> TRUE

\* What msg.usage_metadata can be.
UsageMetadataValues ==
    { PyAbsent,
      PyNone,
      PyDict(Empty),
      PyDict([Empty EXCEPT !["model_name"] = InnerStr]),
      PyDict([Empty EXCEPT !["input_tokens"] = InnerNone,
                           !["output_token_details"] = InnerNone]),
      PyDict([Empty EXCEPT !["input_tokens"] = InnerInt(7), !["output_tokens"] = InnerInt(3),
                           !["total_tokens"] = InnerInt(10)]),
      PyDict([Empty EXCEPT !["input_tokens"] = InnerInt(7), !["output_tokens"] = InnerInt(3),
                           !["total_tokens"] = InnerInt(12),
                           !["output_token_details"] =
                               Inner("dict", 0,
                                     [NoLeaves EXCEPT !["reasoning"] = Leaf("int", 2)]),
                           !["cache_creation_input_tokens"] = InnerInt(4),
                           !["cache_read_input_tokens"] = InnerInt(1)]),
      PyObject([Empty EXCEPT !["model_name"] = InnerStr]) }

\* What msg.usage can be.
UsageValues ==
    { PyAbsent,
      PyNone,
      PyObject([Empty EXCEPT !["model_name"] = InnerStr]),
      PyObject([Empty EXCEPT !["prompt_tokens"] = InnerInt(5),
                             !["completion_tokens"] = InnerInt(2),
                             !["total_tokens"] = InnerInt(7)]) }

Responses == [usage_metadata : UsageMetadataValues, usage : UsageValues]

\* _safe_int: int(v), 0 for None and for what int() rejects.
safe_int(x) == IF x.py = "int" THEN x.n ELSE 0

\* d.get(key, default) of a dict; getattr(o, name, default) of an object or None.
dict_get(x, key, default) == IF x.d[key].py # "absent" THEN x.d[key] ELSE default

getattr_default(o, name, default) ==
    IF o.py = "object" /\ o.d[name].py # "absent" THEN o.d[name] ELSE default

\* The record a call returned, or the fact that it raised.
Returned(value) == [raised |-> FALSE, value |-> value]
Raised == [raised |-> TRUE, value |-> <<>>]

ZeroUsage ==
    [input |-> 0, output |-> 0, reasoning |-> 0, total |-> 0,
     cache_creation_input_tokens |-> 0, cache_read_input_tokens |-> 0]

\* agents/main_agent.py
extract_token_usage(msg) ==
    LET usage == msg.usage_metadata
    IN  IF Truthy(usage) /\ usage.py = "dict"
        THEN LET r0 == safe_int(dict_get(usage, "reasoning_tokens", Zero))
                 details == IF Truthy(dict_get(usage, "output_token_details", None))
                            THEN dict_get(usage, "output_token_details", None)
                            ELSE Inner("dict", 0, NoLeaves)
                 reasoning == IF r0 = 0
                              THEN safe_int(dict_get(details, "reasoning", Zero))
                              ELSE r0
             IN  IF r0 = 0 /\ details.py # "dict" THEN Raised
                 ELSE Returned(
                     [input |-> safe_int(dict_get(usage, "input_tokens", Zero)),
                      output |-> safe_int(dict_get(usage, "output_tokens", Zero)),
                      reasoning |-> reasoning,
                      total |-> safe_int(dict_get(usage, "total_tokens", Zero)),
                      cache_creation_input_tokens |->
                          safe_int(dict_get(usage, "cache_creation_input_tokens", Zero)),
                      cache_read_input_tokens |->
                          safe_int(dict_get(usage, "cache_read_input_tokens", Zero))])
        ELSE IF msg.usage.py # "absent"
        THEN Returned(
                 [input |-> safe_int(getattr_default(msg.usage, "prompt_tokens", Zero)),
                  output |-> safe_int(getattr_default(msg.usage, "completion_tokens", Zero)),
                  reasoning |-> safe_int(getattr_default(msg.usage, "reasoning_tokens", Zero)),
                  total |-> safe_int(getattr_default(msg.usage, "total_tokens", Zero)),
                  cache_creation_input_tokens |-> 0,
                  cache_read_input_tokens |-> 0])
        ELSE Returned(ZeroUsage)

\* scripts_exemplos/finance_ai_utils.py: usage.get is called on whatever truthy
\* value usage_metadata is.
utils_extract_token_usage(msg) ==
    LET usage == msg.usage_metadata
    IN  IF Truthy(usage)
        THEN IF usage.py # "dict" THEN Raised
             ELSE LET r0 == safe_int(dict_get(usage, "reasoning_tokens", None))
                      details == IF Truthy(dict_get(usage, "output_token_details", None))
                                 THEN dict_get(usage, "output_token_details", None)
                                 ELSE Inner("dict", 0, NoLeaves)
                      reasoning == IF r0 = 0
                                   THEN safe_int(dict_get(details, "reasoning", None))
                                   ELSE r0
                  IN  IF r0 = 0 /\ details.py # "dict" THEN Raised
                      ELSE Returned(
                          [input |-> safe_int(dict_get(usage, "input_tokens", None)),
                           output |-> safe_int(dict_get(usage, "output_tokens", None)),
                           reasoning |-> reasoning,
                           total |-> safe_int(dict_get(usage, "total_tokens", None))])
        ELSE IF msg.usage.py # "absent"
        THEN Returned(
                 [input |-> safe_int(getattr_default(msg.usage, "prompt_tokens", Zero)),
                  output |-> safe_int(getattr_default(msg.usage, "completion_tokens", Zero)),
                  reasoning |-> safe_int(getattr_default(msg.usage, "reasoning_tokens", Zero)),
                  total |-> safe_int(getattr_default(msg.usage, "total_tokens", Zero))])
        ELSE Returned([input |-> 0, output |-> 0, reasoning |-> 0, total |-> 0])

ExtractInput ==
    /\ fn_name \in {"main_agent.extract_token_usage", "finance_ai_utils.extract_token_usage"}
    /\ fn_args \in Responses
    /\ fn_results = <<>>

ExtractTokenUsage ==
    /\ fn_name = "main_agent.extract_token_usage"
    /\ Len(fn_results) = 0
    /\ fn_results' = <<extract_token_usage(fn_args)>>
    /\ UNCHANGED <<fn_name, fn_args>>
    /\ UNCHANGED outsideFn

UtilsExtractTokenUsage ==
    /\ fn_name = "finance_ai_utils.extract_token_usage"
    /\ Len(fn_results) = 0
    /\ fn_results' = <<utils_extract_token_usage(fn_args)>>
    /\ UNCHANGED <<fn_name, fn_args>>
    /\ UNCHANGED outsideFn

(***************************************************************************)
(* utils/tokens_tracker.py: the methods of one TokensTracker called one    *)
(* after another.  The costs are Python floats: a sum of two costs is      *)
(* rounded to the nearest float, ties to even.  The model keeps            *)
(* MantissaBits significant bits (defined with the floats above) where a   *)
(* float keeps 53, which is enough for every cost of one entry of the      *)
(* model to be held exactly.                                               *)
(***************************************************************************)
TiposDeToken == {"input", "output", "reasoning", "cache_creation", "cache_read", "total"}

\* total += chamada["custo"] over the entries, in their order.
RECURSIVE SomaCusto(_)
SomaCusto(chamadas_) ==
    IF Len(chamadas_) = 0 THEN 0
    ELSE float_add(SomaCusto(SubSeq(chamadas_, 1, Len(chamadas_) - 1)),
                   chamadas_[Len(chamadas_)].custo)

RECURSIVE SomaTokens(_, _)
SomaTokens(chamadas_, tipo) ==
    IF Len(chamadas_) = 0 THEN 0
    ELSE SomaTokens(Tail(chamadas_), tipo) + Head(chamadas_).tokens[tipo]

DoComponente(chamadas_, comp) == SelectSeq(chamadas_, LAMBDA c : c.componente = comp)

obter_resumo_por_componente(chamadas_) ==
    [comp \in { chamadas_[i].componente : i \in 1..Len(chamadas_) } |->
        [chamadas |-> Len(DoComponente(chamadas_, comp)),
         tokens |-> [tipo \in TiposDeToken |-> SomaTokens(DoComponente(chamadas_, comp), tipo)],
         custo |-> SomaCusto(DoComponente(chamadas_, comp))]]

\* Mutant of obter_resumo_total: the last entry of the ledger is left out.
obter_resumo_total_sem_ultima(chamadas_) ==
    LET es == SubSeq(chamadas_, 1, Len(chamadas_) - 1)
    IN  [total_chamadas |-> Len(es),
         total_tokens |-> SomaTokens(es, "total"),
         total_custo |-> SomaCusto(es),
         tokens_por_tipo |-> [tipo \in TiposDeToken |-> SomaTokens(es, tipo)]]

obter_resumo_total(chamadas_) ==
    [total_chamadas |-> Len(chamadas_),
     total_tokens |-> SomaTokens(chamadas_, "total"),
     total_custo |-> SomaCusto(chamadas_),
     tokens_por_tipo |-> [tipo \in TiposDeToken |-> SomaTokens(chamadas_, tipo)]]

obter_tabela_detalhada(chamadas_) ==
    [i \in 1..Len(chamadas_) |->
        [componente |-> chamadas_[i].componente,
         model |-> chamadas_[i].model,
         input_tokens |-> chamadas_[i].tokens.input,
         output_tokens |-> chamadas_[i].tokens.output,
         reasoning_tokens |-> chamadas_[i].tokens.reasoning,
         cache_creation_tokens |-> chamadas_[i].tokens.cache_creation,
         cache_read_tokens |-> chamadas_[i].tokens.cache_read,
         total_tokens |-> chamadas_[i].tokens.total,
         custo |-> chamadas_[i].custo]]

\* Mutant of limpar: only the last entry is removed.
limpar_ultima(chamadas_) == SubSeq(chamadas_, 1, Len(chamadas_) - 1)

\* self.chamadas = []
limpar(chamadas_) == <<>>

\* The thread that owns the tracker.
Owner == 0

\* registrar_chamada, from its call to its return; a summary read before is
\* out of date.
Registrar(componente, model, tokens) ==
    /\ Len(tr_chamadas) < MaxRegistros
    /\ tr_chamadas' = list_append(tr_chamadas, tr_chamadas,
                                  chamada_de(Owner, componente, model, tokens))
    /\ tr_registros' = tr_registros + 1
    /\ fn_name' = "none"
    /\ fn_args' = <<>>
    /\ fn_results' = <<>>
    /\ UNCHANGED tr_calls
    /\ UNCHANGED <<chatVars, faVars, prVars>>

Limpar ==
    /\ tr_chamadas' = limpar(tr_chamadas)
    /\ tr_registros' = 0
    /\ fn_name' = "none"
    /\ fn_args' = <<>>
    /\ fn_results' = <<>>
    /\ UNCHANGED tr_calls
    /\ UNCHANGED <<chatVars, faVars, prVars>>

ObterResumoPorComponente ==
    /\ fn_name' = "obter_resumo_por_componente"
    /\ fn_args' = <<>>
    /\ fn_results' = <<obter_resumo_por_componente(tr_chamadas)>>
    /\ UNCHANGED trVars
    /\ UNCHANGED <<chatVars, faVars, prVars>>

ObterResumoTotal ==
    /\ fn_name' = "obter_resumo_total"
    /\ fn_args' = <<>>
    /\ fn_results' = <<obter_resumo_total(tr_chamadas)>>
    /\ UNCHANGED trVars
    /\ UNCHANGED <<chatVars, faVars, prVars>>

ObterTabelaDetalhada ==
    /\ fn_name' = "obter_tabela_detalhada"
    /\ fn_args' = <<>>
    /\ fn_results' = <<obter_tabela_detalhada(tr_chamadas)>>
    /\ UNCHANGED trVars
    /\ UNCHANGED <<chatVars, faVars, prVars>>

(***************************************************************************)
(* Initial states.                                                         *)
(***************************************************************************)
Init == ChatInit /\ FaIdle /\ PrIdle /\ TrIdle /\ FnIdle

\* A constructed agent whose tokenomics guide file is in place.
InitGuide == Init /\ guide_exists

\* The agent of main_agent.py stays idle while finance_ai.py runs.
ChatIdle ==
    /\ vector_store = "loaded"
    /\ guide_exists = TRUE
    /\ memory = <<>>
    /\ audits = <<>>
    /\ chamadas = <<>>
    /\ pc = "idle"
    /\ turn = 0
    /\ message = <<>>
    /\ messages = <<>>
    /\ iteration = 0
    /\ llm_call_count = 0
    /\ tool_call_count = 0
    /\ tool_calls = <<>>
    /\ call_idx = 0
    /\ result = NoResult
    /\ trace = <<>>

InitFA == ChatIdle /\ FaIdle /\ PrIdle /\ TrIdle /\ FnIdle

InitPricing == ChatIdle /\ FaIdle /\ PrInput /\ TrIdle /\ FnIdle

InitTracker == ChatIdle /\ FaIdle /\ PrIdle /\ TrIdle /\ FnIdle

(***************************************************************************)
(* Spec: one chat turn on a constructed agent, several calls per response. *)
(***************************************************************************)
Next ==
    \/ \E q \in Questions : ChatStart(q, 1)
    \/ \E e \in ExcTexts : InvokeRaises(e)
    \/ \E e \in ExcTexts : SaveRaises(e)
    \/ \E c \in Contents : InvokeFinal(c)
    \/ \E cs \in CallLists(iteration + 1) : InvokeToolCalls(cs)
    \/ DispatchCall
    \/ ReturnMaxIterations
    \/ ClearMemory

Spec == InitGuide /\ [][Next]_vars

(***************************************************************************)
(* SpecTurns: MaxTurns chat turns on one agent, one tool call per response.*)
(***************************************************************************)
NextTurns ==
    \/ \E q \in Questions : ChatStart(q, MaxTurns)
    \/ \E e \in ExcTexts : InvokeRaises(e)
    \/ \E e \in ExcTexts : SaveRaises(e)
    \/ \E c \in Contents : InvokeFinal(c)
    \/ \E cs \in TurnCallLists(iteration + 1) : InvokeToolCalls(cs)
    \/ DispatchCall
    \/ ReturnMaxIterations
    \/ ClearMemory

SpecTurns == Init /\ [][NextTurns]_vars

(***************************************************************************)
(* SpecWindow: more chat turns than the window of the agent's memory, each *)
(* answered without tool call.                                             *)
(***************************************************************************)
\* ConversationBufferWindowMemory(k=20)
memory_k == 20

WindowContents == { c \in Contents : c.kind = "str" }

NextWindow ==
    \/ \E q \in Questions : ChatStart(q, memory_k + ExtraTurns)
    \/ \E e \in ExcTexts : InvokeRaises(e)
    \/ \E c \in WindowContents : InvokeFinal(c)
    \/ ClearMemory

SpecWindow == Init /\ [][NextWindow]_vars

(***************************************************************************)
(* SpecFA: one turn of run_agent_turn_single_llm with its seletor threads. *)
(***************************************************************************)
NextFA ==
    \/ \E q \in Questions, limit \in MaxToolCallsValues : FaStart(q, limit, 1)
    \/ FaInvokeRaises
    \/ \E c \in Contents : FaInvokeFinal(c)
    \/ \E cs \in FaCallLists(fa_iteration + 1) : FaInvokeToolCalls(cs)
    \/ \E out \in RetrieverOutcomes : FaDispatchRetriever(out)
    \/ FaDispatchOther
    \/ \E w \in 1..Len(workers) : SeletorJoin(w)
    \/ \E w \in 1..Len(workers) :
          \E out \in SeletorOutcomes(workers[w].chunks) : SeletorSelect(w, out)
    \/ \E w \in 1..Len(workers) : SeletorAdd(w)

SpecFA == InitFA /\ [][NextFA]_vars

(***************************************************************************)
(* SpecPricing: calls of calcular_custo on every model name and record.    *)
(***************************************************************************)
TokenValues == UNION { TokenDomain[f] : f \in TokenFields }

NextPricing ==
    \/ \E use_cached \in BOOLEAN : Calcular(use_cached)
    \/ \E campo \in TokenFields, v \in TokenValues : CalcularMais(campo, v)

SpecPricing == InitPricing /\ [][NextPricing]_vars

(***************************************************************************)
(* SpecMemory: add_user_message, add_assistant_message and clear called in *)
(* any order on one ConversationMemory.                                    *)
(***************************************************************************)
NextMemory ==
    \/ \E q \in Questions : MemAddUser(q)
    \/ \E content \in MemoryTexts, tools_metadata \in ToolsMetadata :
          MemAddAssistant(content, tools_metadata)
    \/ MemClear

SpecMemory == InitFA /\ [][NextMemory]_vars

(***************************************************************************)
(* SpecLedger: registrar_chamada, limpar and the read operations called in *)
(* any order on one TokensTracker, by the thread that owns it.             *)
(***************************************************************************)
NextLedger ==
    \/ \E componente \in Componentes, model \in TrackerModels, tokens \in TrackerTokens :
          Registrar(componente, model, tokens)
    \/ Limpar
    \/ ObterResumoPorComponente
    \/ ObterResumoTotal
    \/ ObterTabelaDetalhada

SpecLedger == InitTracker /\ [][NextLedger]_vars

(***************************************************************************)
(* SpecSearch: search_with_audit applied to a query of an index.           *)
(***************************************************************************)
InitSearch == ChatIdle /\ FaIdle /\ PrIdle /\ TrIdle /\ SearchInput

NextSearch == SearchWithAudit

SpecSearch == InitSearch /\ [][NextSearch]_vars

(***************************************************************************)
(* SpecRequestedK: two calls of a retrieval tool that differ in their      *)
(* arguments, dispatched one after the other.                              *)
(***************************************************************************)
InitRequestedK == ChatIdle /\ FaIdle /\ PrIdle /\ TrIdle /\ RequestInput

NextRequestedK ==
    \/ RequestFirst
    \/ RequestSecond

SpecRequestedK == InitRequestedK /\ [][NextRequestedK]_vars

(***************************************************************************)
(* SpecRetrieverQuery: retriever_query on every stage-2 answer.            *)
(***************************************************************************)
InitRetrieverQuery == ChatIdle /\ FaIdle /\ PrIdle /\ TrIdle /\ RetrieverQueryInput

NextRetrieverQuery == RetrieverQuery

SpecRetrieverQuery == InitRetrieverQuery /\ [][NextRetrieverQuery]_vars

(***************************************************************************)
(* SpecFATurns: MaxTurns turns of run_agent_turn_single_llm on one         *)
(* ConversationMemory, without limit of retriever calls and with at most   *)
(* one retriever call per turn; a caller that got no result, or does not   *)
(* join the seletor threads of the result, starts the next turn while      *)
(* threads of the previous one are running.                                *)
(***************************************************************************)
NextFATurns ==
    \/ \E q \in Questions : FaStart(q, -1, MaxTurns)
    \/ FaInvokeRaises
    \/ \E c \in WindowContents : FaInvokeFinal(c)
    \/ \E cs \in FaCallLists(fa_iteration + 1) :
          /\ fa_tool_call_count = 0
          /\ cs[1].name = "consultar_vector_store_retriever"
          /\ FaInvokeToolCalls(cs)
    \/ \E out \in RetrieverOutcomes : Len(out.chunks) < 2 /\ FaDispatchRetriever(out)
    \/ \E w \in 1..Len(workers) : SeletorJoin(w)
    \/ \E w \in 1..Len(workers) :
          \E out \in SeletorOutcomes(workers[w].chunks) : SeletorSelect(w, out)
    \/ \E w \in 1..Len(workers) : SeletorAdd(w)

SpecFATurns == InitFA /\ [][NextFATurns]_vars

(***************************************************************************)
(* SpecNormalizar: normalizar_nome_modelo applied to a name, then to its   *)
(* own result.                                                             *)
(***************************************************************************)
InitNormalizar == ChatIdle /\ FaIdle /\ PrIdle /\ TrIdle /\ NormalizarInput

NextNormalizar ==
    \/ Normalizar
    \/ NormalizarDeNovo

SpecNormalizar == InitNormalizar /\ [][NextNormalizar]_vars

(***************************************************************************)
(* SpecUsage: the two extract_token_usage applied to a response.           *)
(***************************************************************************)
InitUsage == ChatIdle /\ FaIdle /\ PrIdle /\ TrIdle /\ ExtractInput

NextUsage ==
    \/ ExtractTokenUsage
    \/ UtilsExtractTokenUsage

SpecUsage == InitUsage /\ [][NextUsage]_vars

(***************************************************************************)
(* SpecTracker: MaxCallers threads register one call each on one tracker.  *)
(***************************************************************************)
NextTracker ==
    \/ \E t \in Callers, componente \in Componentes, model \in TrackerModels,
          tokens \in TrackerTokens : RegistrarBuild(t, componente, model, tokens)
    \/ \E t \in Callers : RegistrarAppend(t)

SpecTracker == InitTracker /\ [][NextTracker]_vars

\* A step of some seletor thread.
SeletorStep ==
    \E w \in 1..Len(workers) :
        \/ SeletorJoin(w)
        \/ \E out \in SeletorOutcomes(workers[w].chunks) : SeletorSelect(w, out)
        \/ SeletorAdd(w)

\* A turn of run_agent_turn_single_llm without limit of retriever calls
\* (max_tool_calls is None).
NextFAUnlimited ==
    \/ \E q \in Questions : FaStart(q, -1, 1)
    \/ FaInvokeRaises
    \/ \E c \in Contents : FaInvokeFinal(c)
    \/ \E cs \in FaCallLists(fa_iteration + 1) : FaInvokeToolCalls(cs)
    \/ \E out \in RetrieverOutcomes : FaDispatchRetriever(out)
    \/ FaDispatchOther
    \/ \E w \in 1..Len(workers) : SeletorJoin(w)
    \/ \E w \in 1..Len(workers) :
          \E out \in SeletorOutcomes(workers[w].chunks) : SeletorSelect(w, out)
    \/ \E w \in 1..Len(workers) : SeletorAdd(w)

\* SpecFAFair: such a turn where a seletor thread that can run eventually runs
\* (the threads are scheduled, and each call of the selector returns).
SpecFAFair == InitFA /\ [][NextFAUnlimited]_vars /\ WF_vars(SeletorStep)

(***************************************************************************)
(* Properties of RegenerationCreditAgent.chat.                             *)
(***************************************************************************)
\* Every model invocation of the turn so far answered with tool calls.
AllToolCalls == \A i \in 1..Len(trace) : trace[i] = "tools"

\* Number of iterations of the turn whose response had at least one tool call.
ToolIterations == Cardinality({i \in 1..Len(trace) : trace[i] = "tools"})

\* C1: when every response of the turn carries a tool call, chat invokes the
\* model exactly max_iterations times, never once more, and returns
\* success=False with error max_iterations_reached.
C1_LoopTermination ==
    /\ Len(trace) <= max_iterations
    /\ (pc = "returned" /\ AllToolCalls) =>
          /\ Len(trace) = max_iterations
          /\ result.success = FALSE
          /\ result.error = "max_iterations_reached"

C1_Witness ==
    /\ pc = "returned"
    /\ AllToolCalls
    /\ Len(trace) = max_iterations
    /\ result.error = "max_iterations_reached"

\* Each assistant message with n tool calls is followed at once by exactly n
\* tool messages carrying the requested call ids in order, and every tool
\* message answers a call of the assistant message before it.
Paired(ms) ==
    \A i \in 1..Len(ms) :
        /\ (ms[i].type = "ai" /\ Len(ms[i].tool_calls) > 0) =>
              LET n == Len(ms[i].tool_calls)
              IN  /\ i + n <= Len(ms)
                  /\ \A j \in 1..n :
                        /\ ms[i + j].type = "tool"
                        /\ ms[i + j].tool_call_id = ms[i].tool_calls[j].id
                  /\ (i + n + 1 <= Len(ms)) => ms[i + n + 1].type # "tool"
        /\ ms[i].type = "tool" =>
              \E p \in 1..(i - 1) :
                  /\ ms[p].type = "ai"
                  /\ i - p <= Len(ms[p].tool_calls)
                  /\ ms[p].tool_calls[i - p].id = ms[i].tool_call_id
                  /\ \A m \in (p + 1)..i : ms[m].type = "tool"

\* C2: at every model invocation and at the end of the turn the transient
\* message list pairs every requested tool call with its tool message, in
\* order, whatever the tools did.
C2_ToolCallPairing == pc \in {"loop", "returned"} => Paired(messages)

C2_Witness ==
    /\ pc = "returned"
    /\ \E i \in 1..Len(messages) :
          /\ Len(messages[i].tool_calls) = 2
          /\ messages[i].tool_calls[1].name \notin BoundTools
          /\ ~messages[i].tool_calls[2].args_ok
    /\ \E i \in 1..Len(messages) :
          /\ Len(messages[i].tool_calls) = 1
          /\ messages[i].tool_calls[1].name \in SearchTools

\* The error texts the loop itself writes into a tool message.
IsErrorText(content, name) ==
    \/ content[1] = "Tool" /\ content[2] = name
    \/ content[1] = "Erro ao executar tool" /\ content[2] = name

\* C3: dispatching a call of an unknown tool, or a call whose tool raises,
\* appends one tool message with an error text for that call id, goes on to
\* the next call of the response or back to the head of the loop, and does
\* not end or fail the turn.
C3_ToolErrorsAbsorbed ==
    [][ (/\ pc = "dispatch"
         /\ \/ tool_calls[call_idx + 1].name \notin BoundTools
            \/ ~tool_calls[call_idx + 1].args_ok)
        => /\ Len(messages') = Len(messages) + 1
           /\ SubSeq(messages', 1, Len(messages)) = messages
           /\ messages'[Len(messages')].type = "tool"
           /\ messages'[Len(messages')].tool_call_id = tool_calls[call_idx + 1].id
           /\ IsErrorText(messages'[Len(messages')].content, tool_calls[call_idx + 1].name)
           /\ call_idx' = call_idx + 1
           /\ pc' = IF call_idx' < Len(tool_calls) THEN "dispatch" ELSE "loop"
           /\ result' = NoResult
           /\ iteration' = iteration ]_vars

C3_Witness ==
    /\ pc = "loop"
    /\ iteration = 1
    /\ Len(tool_calls) = 2
    /\ tool_calls[1].name \notin BoundTools
    /\ tool_calls[2].name \in SearchTools
    /\ tool_calls[2].args_ok
    /\ messages[Len(messages)].tool_call_id = tool_calls[2].id
    /\ messages[Len(messages) - 1].tool_call_id = tool_calls[1].id

\* A search tool was requested, hence dispatched, during the turn.
SearchDispatched ==
    \E i \in 1..Len(messages) :
        \E j \in 1..Len(messages[i].tool_calls) :
            messages[i].tool_calls[j].name \in SearchTools /\ messages[i].tool_calls[j].args_ok

\* C4: with vector_store = None, every turn that dispatched a search tool
\* ends with success=False.
C4_StoreUnavailableFatal ==
    (pc = "returned" /\ vector_store = "None" /\ SearchDispatched) => result.success = FALSE

\* C5: on a fresh agent a turn whose first response has no tool call returns
\* success=True after 1 iteration with tool_calls=0 and retriever_audits=[],
\* and memory holds the question followed by the answer.
C5_ImmediateAnswer ==
    (pc = "returned" /\ turn = 1 /\ trace = <<"final">>) =>
        /\ result.success = TRUE
        /\ result.stats.iterations = 1
        /\ result.stats.tool_calls = 0
        /\ result.retriever_audits = <<>>
        /\ memory = <<HumanMessage(message), AIMessage(result.response, <<>>)>>

C5_Witness ==
    /\ pc = "returned"
    /\ turn = 1
    /\ trace = <<"final">>
    /\ result.success
    /\ Len(memory) = 2

\* C6: every result of chat reports llm_call_count equal to the model
\* invocations of the turn and tool_call_count equal to the iterations with
\* tool calls.
C6_CountsReported ==
    (pc = "returned" /\ (result.success \/ result.error = "max_iterations_reached")) =>
        /\ "stats" \in DOMAIN result
        /\ result.stats.total_chamadas_llm = Len(trace)
        /\ result.stats.tool_calls = ToolIterations

\* C7: the retriever_audits of a turn's result are the audits of that turn's
\* retrievals only, and total_retriever_calls counts them.
C7_AuditsOfTheTurn ==
    (pc = "returned" /\ result.success) =>
        /\ \A i \in 1..Len(result.retriever_audits) : result.retriever_audits[i].turn = turn
        /\ result.stats.total_retriever_calls =
              Cardinality({i \in 1..Len(audits) : audits[i].turn = turn})

\* C8: chat never propagates an exception; a failed turn returns success=False
\* with an error field and one of the two fixed apology texts.
C8_NoExceptionEscapes ==
    /\ pc # "raised"
    /\ (pc = "returned" /\ ~result.success) =>
          /\ "error" \in DOMAIN result
          /\ result.response \in {ApologyMaxIterations, ApologyException}
          /\ (result.error \in ExcTexts => result.response = ApologyException)

C8_Witness ==
    /\ pc = "returned"
    /\ ~result.success
    /\ result.error = "auth"
    /\ result.response = ApologyException
    /\ iteration = 2
    /\ Len(chamadas) = 2

(***************************************************************************)
(* Properties of run_agent_turn_single_llm.                                *)
(***************************************************************************)
\* C9: an iteration bound stops the loop: once FaCallCap model invocations
\* were made in a turn (any bound up to FaCallCap implies this), the loop
\* condition is false at the head of the loop and the turn does not call the
\* model again.
C9_IterationBound ==
    (fa_pc = "loop" /\ fa_llm_call_count >= FaCallCap) => ~FaLoopGuard

\* A seletor thread is past its join and has not ended.
Active(w) == workers[w].status \in {"selecting", "adding"}

\* C10: among the seletor threads of one turn a thread is past its join only
\* when every thread started before it has ended, so at most one is active,
\* and the pool is mutated in the order the threads were started.
C10_SeletorSerialized ==
    /\ \A i, j \in 1..Len(workers) :
          (/\ workers[i].turn = workers[j].turn
           /\ workers[i].selecao < workers[j].selecao
           /\ workers[j].status # "started") => workers[i].status = "done"
    /\ \A i, j \in 1..Len(workers) :
          (workers[i].turn = workers[j].turn /\ Active(i) /\ Active(j)) => i = j
    /\ \A a, b \in 1..Len(selecoes) :
          (a < b /\ selecoes[a].turn = selecoes[b].turn) =>
              selecoes[a].selecao < selecoes[b].selecao

C10_Witness ==
    /\ Len(workers) >= 2
    /\ workers[1].turn = workers[2].turn
    /\ workers[1].status = "done"
    /\ workers[2].status = "adding"
    /\ Len(selecoes) = 1
    /\ selecoes[1].selecao = 1

\* A step of the main loop of run_agent_turn_single_llm is possible.
MainLoopCanStep ==
    \/ ENABLED (\E c \in Contents : FaInvokeFinal(c))
    \/ ENABLED (\E out \in RetrieverOutcomes : FaDispatchRetriever(out))
    \/ ENABLED FaDispatchOther

\* C11: whatever the seletor threads of the turn are doing, the main loop is
\* never held: at the head of the loop the final answer can be returned at
\* once, a pending tool call can be dispatched, and the steps of the main
\* loop leave the threads as they are.
C11_MainLoopNeverWaits ==
    /\ (fa_pc = "loop" /\ fa_llm_call_count < FaCallCap) =>
          ENABLED (\E c \in Contents : FaInvokeFinal(c))
    /\ fa_pc = "dispatch" => MainLoopCanStep

C11_Witness ==
    /\ fa_pc = "returned"
    /\ Len(fa_result.seletor_threads) = 2
    /\ workers[fa_result.seletor_threads[1]].status = "selecting"
    /\ workers[fa_result.seletor_threads[2]].status = "started"

\* The retriever calls of the turn that returned at least one chunk.
RetrievalsWithChunks ==
    { i \in 1..Len(fa_messages) :
        /\ fa_messages[i].type = "tool"
        /\ fa_messages[i].content[1] = "chunks"
        /\ Len(fa_messages[i].content[2]) > 0 }

\* Every seletor thread listed in the result has ended.
ListedThreadsEnded ==
    \A i \in 1..Len(fa_result.seletor_threads) :
        workers[fa_result.seletor_threads[i]].status = "done"

\* C12: the result lists, in spawn order, the seletor threads of the turn, one
\* per retriever call that returned a chunk; and once the turn has returned
\* every listed thread eventually ends, so joining them all terminates.
C12_ListedThreadsTerminate ==
    /\ [](fa_pc = "returned" =>
            /\ Len(fa_result.seletor_threads) = Cardinality(RetrievalsWithChunks)
            /\ Len(fa_result.seletor_threads) =
                  Cardinality({w \in 1..Len(workers) : workers[w].turn = fa_turn})
            /\ \A i \in 1..Len(fa_result.seletor_threads) :
                  /\ workers[fa_result.seletor_threads[i]].turn = fa_turn
                  /\ workers[fa_result.seletor_threads[i]].selecao = i)
    /\ (fa_pc = "returned") ~> (fa_pc = "returned" /\ ListedThreadsEnded)

C12_Witness ==
    /\ fa_pc = "returned"
    /\ Len(fa_result.seletor_threads) = 2
    /\ ListedThreadsEnded
    /\ Len(selecoes) = 2

(***************************************************************************)
(* Properties of calcular_custo.                                           *)
(***************************************************************************)
\* The last call priced a model of the table.
Priced == Len(obter_precos_modelo(pr_model)) = 1

PrecosDoModelo == obter_precos_modelo(pr_model)[1]

\* C17, as stated: after any single count of the record was raised, the cost
\* is not lower than before.
C17_MonotoneAllFields ==
    (pr_campo # "none" /\ Priced) => pr_custo >= pr_custo_antes

\* C17, amended: raising input, output, reasoning or
\* cache_creation_input_tokens never lowers the cost, and raising
\* cache_read_input_tokens never lowers it for a model that is not billed the
\* Anthropic way.
C17_MonotoneExceptCacheRead ==
    (/\ pr_campo # "none"
     /\ Priced
     /\ \/ pr_campo # "cache_read_input_tokens"
        \/ detectar_provider(pr_model) # "anthropic")
    => pr_custo >= pr_custo_antes

C17_Witness ==
    /\ pr_campo = "cache_creation_input_tokens"
    /\ pr_model = <<"claude-sonnet-4.5">>
    /\ pr_tokens.input = 10
    /\ pr_tokens.cache_creation_input_tokens = 5
    /\ pr_tokens.cache_read_input_tokens = 2
    /\ pr_custo - pr_custo_antes = 5 * (3750 - 3000)

\* C18: for an Anthropic model and input >= cache_creation + cache_read the
\* cost is (input - cache_creation - cache_read) x input rate + cache_creation
\* x cache_write_5m rate + cache_read x cache_read rate + output x output
\* rate; for input 10000, output 2000, cache creation 5000 and cache read 2000
\* on claude-sonnet-4.5 it is 0.05835 dollars.
C18_AnthropicCacheCost ==
    (/\ pr_pc = "computed"
     /\ Priced
     /\ detectar_provider(pr_model) = "anthropic"
     /\ pr_tokens.input >=
           pr_tokens.cache_creation_input_tokens + pr_tokens.cache_read_input_tokens)
    => /\ pr_custo =
             (pr_tokens.input - pr_tokens.cache_creation_input_tokens
                 - pr_tokens.cache_read_input_tokens) * PrecosDoModelo.input
             + pr_tokens.cache_creation_input_tokens * PrecosDoModelo.cache_write_5m
             + pr_tokens.cache_read_input_tokens * PrecosDoModelo.cache_read
             + pr_tokens.output * PrecosDoModelo.output
       /\ (/\ normalizar_nome_modelo(pr_model) = <<"claude-sonnet-4.5">>
           /\ pr_tokens = [input |-> 10, output |-> 2, reasoning |-> 0,
                           cache_creation_input_tokens |-> 5,
                           cache_read_input_tokens |-> 2])
          => pr_custo = 58350

C18_Witness ==
    /\ pr_pc = "computed"
    /\ pr_campo = "none"
    /\ pr_model = <<"claude-sonnet-4-5-20250929">>
    /\ pr_tokens = [input |-> 10, output |-> 2, reasoning |-> 0,
                    cache_creation_input_tokens |-> 5, cache_read_input_tokens |-> 2]
    /\ pr_custo = 58350

\* C19: for every priced model the reasoning tokens are billed at the output
\* rate: the cost is the cost of the record without its reasoning tokens plus
\* reasoning x output rate (0.044 dollars for o3 with input 10000, output
\* 2000, reasoning 1000).
C19_ReasoningAtOutputRate ==
    (pr_pc = "computed" /\ Priced) =>
        /\ pr_custo =
              calcular_custo([pr_tokens EXCEPT !.reasoning = 0], pr_model, pr_use_cached)
              + pr_tokens.reasoning * PrecosDoModelo.output
        /\ (/\ pr_model = <<"o3">>
            /\ ~pr_use_cached
            /\ pr_tokens = [input |-> 10, output |-> 2, reasoning |-> 1,
                            cache_creation_input_tokens |-> 0,
                            cache_read_input_tokens |-> 0])
           => pr_custo = 44000

(***************************************************************************)
(* Properties of TokensTracker.registrar_chamada.                          *)
(***************************************************************************)
\* The positions of the ledger that hold the entry of thread t.
EntriesOf(t) == { i \in 1..Len(tr_chamadas) : tr_chamadas[i].caller = t }

C20_UnknownModelRegistered ==
    \A t \in Callers :
        (/\ tr_calls[t].pc # "idle"
         /\ Len(obter_precos_modelo(tr_calls[t].chamada.model)) = 0)
        => /\ tr_calls[t].chamada.custo = 0
           /\ tr_calls[t].chamada.custo_detalhado = [total |-> 0]
           /\ tr_calls[t].pc = "built" => ENABLED RegistrarAppend(t)
           /\ tr_calls[t].pc = "done" =>
                 \E i \in 1..Len(tr_chamadas) :
                     /\ tr_chamadas[i].caller = t
                     /\ tr_chamadas[i].model = tr_calls[t].chamada.model
                     /\ tr_chamadas[i].custo = 0

C20_Witness ==
    /\ Len(tr_chamadas) = 1
    /\ tr_chamadas[1].model = <<"modelo-desconhecido">>
    /\ tr_chamadas[1].tokens.input = 10
    /\ tr_chamadas[1].tokens.total = 13
    /\ tr_chamadas[1].custo = 0

(***************************************************************************)
(* Properties of ConversationMemory.                                       *)
(***************************************************************************)
Decorated(llm_content, ui_content) ==
    \E tools_metadata \in ToolsMetadata :
        llm_content = create_tool_memory_prefix(tools_metadata) \o <<"\n\n">> \o ui_content

\* C14: llm_history and ui_messages have the same length and the same role at
\* every index; a user content is the same in both, and an assistant content
\* of llm_history is the UI content, or a tool memory prefix, a blank line
\* and the UI content.
C14_ViewsInLockstep ==
    /\ Len(llm_history) = Len(ui_messages)
    /\ \A i \in 1..Len(llm_history) :
          IF ui_messages[i].role = "user"
          THEN /\ llm_history[i].type = "human"
               /\ llm_history[i].content = ui_messages[i].content
          ELSE /\ ui_messages[i].role = "assistant"
               /\ llm_history[i].type = "ai"
               /\ \/ llm_history[i].content = ui_messages[i].content
                  \/ Decorated(llm_history[i].content, ui_messages[i].content)

C14_Witness ==
    /\ Len(llm_history) = 3
    /\ ui_messages[1].role = "user"
    /\ ui_messages[2].role = "assistant"
    /\ llm_history[2].content # ui_messages[2].content
    /\ Len(create_tool_memory_prefix(NoMetadata)) = 0
    /\ llm_history[2].content[1] = "["
    /\ ui_messages[3].role = "assistant"
    /\ llm_history[3].content = ui_messages[3].content

(***************************************************************************)
(* Conversation memory of RegenerationCreditAgent.                         *)
(***************************************************************************)
\* C15: the steps of the tool-call loop of chat leave memory unchanged;
\* memory changes only at the step that ends a turn with its final answer,
\* by the question and that answer, or by clear_memory; and memory holds
\* only user messages and assistant messages without tool calls.
C15_MemoryOutsideToolLoop ==
    /\ [](\A i \in 1..Len(memory) :
             /\ memory[i].type \in {"human", "ai"}
             /\ memory[i].tool_calls = <<>>)
    /\ [][(pc = "dispatch" \/ pc' = "dispatch") => memory' = memory]_vars
    /\ [][memory' # memory =>
             \/ /\ pc = "loop"
                /\ pc' = "returned"
                /\ result'.success
                /\ memory' = memory \o <<HumanMessage(message),
                                         AIMessage(result'.response, <<>>)>>
             \/ /\ pc \in {"idle", "returned"}
                /\ pc' = "idle"
                /\ memory' = <<>>]_vars

C15_Witness ==
    /\ pc = "returned"
    /\ turn = 2
    /\ Len(memory) = 4
    /\ \E i \in 1..Len(messages) : messages[i].type = "tool"
    /\ \E i \in 1..Len(messages) : messages[i].type = "ai" /\ messages[i].tool_calls # <<>>
    /\ memory[3] = HumanMessage(message)
    /\ memory[4] = AIMessage(result.response, <<>>)

\* C16: the history that chat puts in the transient list, between the system
\* prompt and the question, holds at most the last memory_k exchanges, that
\* is 2 * memory_k messages.
C16_HistoryWindow ==
    (pc = "loop" /\ iteration = 0) => Len(messages) - 2 <= 2 * memory_k

(***************************************************************************)
(* Properties of the model names.                                          *)
(***************************************************************************)
\* A key of MODEL_ALIASES, alone or behind one provider prefix.
KnownAlias(model) ==
    /\ Len(model) \in {1, 2}
    /\ model[Len(model)] \in DOMAIN MODEL_ALIASES

\* C21: for every key of MODEL_ALIASES, with or without provider prefix,
\* normalizar_nome_modelo applied to its own result returns that result.
C21_NormalizarIdempotent ==
    (/\ fn_name = "normalizar_nome_modelo"
     /\ Len(fn_results) = 2
     /\ KnownAlias(fn_args))
    => fn_results[2] = fn_results[1]

C21_Witness ==
    /\ fn_name = "normalizar_nome_modelo"
    /\ fn_args = <<"openai", "gpt-5-2025-08-07">>
    /\ fn_results = <<(<<"gpt-5">>), (<<"gpt-5">>)>>

(***************************************************************************)
(* Properties of extract_token_usage.                                      *)
(***************************************************************************)
UsageTokenKeys ==
    {"input_tokens", "output_tokens", "total_tokens", "reasoning_tokens",
     "output_token_details", "cache_creation_input_tokens", "cache_read_input_tokens",
     "reasoning", "prompt_tokens", "completion_tokens"}

\* The value holds no token count.
NoCounts(x) ==
    x.py \in {"dict", "object"} => \A k \in UsageTokenKeys : x.d[k].py \in {"absent", "None"}

NoUsageInformation(msg) == NoCounts(msg.usage_metadata) /\ NoCounts(msg.usage)

\* C22: for a response without usage information each of the two
\* extract_token_usage returns, without raising, the record of the six
\* counts input, output, reasoning, total, cache_creation_input_tokens and
\* cache_read_input_tokens, all 0.
C22_ZerosWithoutUsage ==
    (/\ fn_name \in {"main_agent.extract_token_usage", "finance_ai_utils.extract_token_usage"}
     /\ Len(fn_results) = 1
     /\ NoUsageInformation(fn_args))
    => /\ ~fn_results[1].raised
       /\ DOMAIN fn_results[1].value = DOMAIN ZeroUsage
       /\ \A k \in DOMAIN fn_results[1].value : fn_results[1].value[k] = 0

\* The same for extract_token_usage of agents/main_agent.py alone.
C22_AgentZerosWithoutUsage ==
    (/\ fn_name = "main_agent.extract_token_usage"
     /\ Len(fn_results) = 1
     /\ NoUsageInformation(fn_args))
    => fn_results[1] = Returned(ZeroUsage)

(***************************************************************************)
(* Properties of the summaries and of the ledger of TokensTracker.         *)
(***************************************************************************)
\* The components of a ledger, in the order of their first entry (the order
\* of the keys of the dict obter_resumo_por_componente returns).
RECURSIVE ComponentesEmOrdem(_)
ComponentesEmOrdem(chamadas_) ==
    IF Len(chamadas_) = 0 THEN <<>>
    ELSE LET antes == ComponentesEmOrdem(SubSeq(chamadas_, 1, Len(chamadas_) - 1))
             comp == chamadas_[Len(chamadas_)].componente
         IN  IF \E i \in 1..Len(antes) : antes[i] = comp THEN antes ELSE Append(antes, comp)

RECURSIVE SomaDeChamadas(_, _)
SomaDeChamadas(por_comp, ordem) ==
    IF Len(ordem) = 0 THEN 0
    ELSE SomaDeChamadas(por_comp, Tail(ordem)) + por_comp[Head(ordem)].chamadas

RECURSIVE SomaDeTokens(_, _, _)
SomaDeTokens(por_comp, ordem, tipo) ==
    IF Len(ordem) = 0 THEN 0
    ELSE SomaDeTokens(por_comp, Tail(ordem), tipo) + por_comp[Head(ordem)].tokens[tipo]

\* sum(v["custo"] for v in por_comp.values()), on floats.
RECURSIVE SomaDeCustos(_, _)
SomaDeCustos(por_comp, ordem) ==
    IF Len(ordem) = 0 THEN 0
    ELSE float_add(SomaDeCustos(por_comp, SubSeq(ordem, 1, Len(ordem) - 1)),
                   por_comp[ordem[Len(ordem)]].custo)

\* The sum of the costs of the entries, without rounding.
RECURSIVE CustoExato(_)
CustoExato(chamadas_) ==
    IF Len(chamadas_) = 0 THEN 0 ELSE CustoExato(Tail(chamadas_)) + Head(chamadas_).custo

CountsAgree(total, por_comp) ==
    LET ordem == ComponentesEmOrdem(tr_chamadas)
    IN  /\ total.total_chamadas = tr_registros
        /\ total.total_chamadas = SomaDeChamadas(por_comp, ordem)
        /\ \A tipo \in TiposDeToken :
              total.tokens_por_tipo[tipo] = SomaDeTokens(por_comp, ordem, tipo)
        /\ total.total_tokens = total.tokens_por_tipo["total"]

CostsEqual(total, por_comp) ==
    total.total_custo = SomaDeCustos(por_comp, ComponentesEmOrdem(tr_chamadas))

CostsClose(total, por_comp) ==
    LET d == total.total_custo - SomaDeCustos(por_comp, ComponentesEmOrdem(tr_chamadas))
        exato == CustoExato(tr_chamadas)
    IN  /\ d <= Len(tr_chamadas) * Ulp(exato)
        /\ -d <= Len(tr_chamadas) * Ulp(exato)
        /\ total.total_custo - exato <= Len(tr_chamadas) * Ulp(exato)
        /\ exato - total.total_custo <= Len(tr_chamadas) * Ulp(exato)

\* C23, as stated: a summary read from the tracker agrees with the other
\* one: total_chamadas is the number of registrations since the last limpar
\* and the sum of the per-component 'chamadas', and for every token kind and
\* for the cost the total equals the sum of the per-component values.
C23_SummariesAgree ==
    /\ fn_name = "obter_resumo_total" =>
          /\ CountsAgree(fn_results[1], obter_resumo_por_componente(tr_chamadas))
          /\ CostsEqual(fn_results[1], obter_resumo_por_componente(tr_chamadas))
    /\ fn_name = "obter_resumo_por_componente" =>
          /\ CountsAgree(obter_resumo_total(tr_chamadas), fn_results[1])
          /\ CostsEqual(obter_resumo_total(tr_chamadas), fn_results[1])

\* C23, amended: the counts of calls and of tokens agree exactly; the total
\* cost and the sum of the per-component costs are both within the rounding
\* of the float additions of the exact sum of the entry costs, and of each
\* other.
C23_SummariesAgreeUpToRounding ==
    /\ fn_name = "obter_resumo_total" =>
          /\ CountsAgree(fn_results[1], obter_resumo_por_componente(tr_chamadas))
          /\ CostsClose(fn_results[1], obter_resumo_por_componente(tr_chamadas))
    /\ fn_name = "obter_resumo_por_componente" =>
          /\ CountsAgree(obter_resumo_total(tr_chamadas), fn_results[1])
          /\ CostsClose(obter_resumo_total(tr_chamadas), fn_results[1])

C23_Witness ==
    /\ fn_name = "obter_resumo_por_componente"
    /\ tr_registros = 3
    /\ DOMAIN fn_results[1] = Componentes
    /\ fn_results[1]["analista"].chamadas = 2
    /\ fn_results[1]["seletor"].tokens["cache_read"] = 2
    /\ \A i \in 1..3 : tr_chamadas[i].custo > 0 /\ float(tr_chamadas[i].custo) = tr_chamadas[i].custo
    /\ obter_resumo_total(tr_chamadas).total_custo
           # fn_results[1]["analista"].custo + fn_results[1]["seletor"].custo

\* The counts an entry was registered with.
TokensDaChamada(chamada) ==
    [input |-> chamada.tokens.input,
     output |-> chamada.tokens.output,
     reasoning |-> chamada.tokens.reasoning,
     cache_creation_input_tokens |-> chamada.tokens.cache_creation,
     cache_read_input_tokens |-> chamada.tokens.cache_read]

\* C24: the ledger is append-only: a step that changes it adds one entry at
\* the end and leaves the earlier entries as they were, or empties it; a
\* step in which a read operation returns leaves it unchanged, and so does
\* every step that is not a return of registrar_chamada or limpar.
C24_LedgerAppendOnly ==
    /\ [][tr_chamadas' # tr_chamadas =>
             \/ /\ Len(tr_chamadas') = Len(tr_chamadas) + 1
                /\ SubSeq(tr_chamadas', 1, Len(tr_chamadas)) = tr_chamadas
                /\ tr_registros' = tr_registros + 1
             \/ /\ tr_chamadas' = <<>>
                /\ tr_registros' = 0]_vars
    /\ [][fn_name' \in {"obter_resumo_por_componente", "obter_resumo_total",
                        "obter_tabela_detalhada"}
             => tr_chamadas' = tr_chamadas]_vars
    /\ [][tr_registros' = tr_registros + 1 =>
             /\ Len(tr_chamadas') = Len(tr_chamadas) + 1
             /\ tr_chamadas'[Len(tr_chamadas')].custo
                   = calcular_custo(TokensDaChamada(tr_chamadas'[Len(tr_chamadas')]),
                                    tr_chamadas'[Len(tr_chamadas')].model, FALSE)]_vars

C24_Witness ==
    /\ fn_name = "obter_tabela_detalhada"
    /\ Len(fn_results[1]) = 3
    /\ Len(tr_chamadas) = 3
    /\ tr_registros = 3
    /\ fn_results[1][1].custo = tr_chamadas[1].custo
    /\ tr_chamadas[1].custo # tr_chamadas[3].custo

\* C25: the 'total' of the entry registrar_chamada builds is the total of
\* the token record when the record has one, and otherwise the sum of its
\* counts input, output, reasoning, cache_creation and cache_read.
C25_EntryTotal ==
    \A t \in Callers :
        tr_calls[t].pc # "idle" =>
            tr_calls[t].chamada.tokens.total =
                IF tr_calls[t].tokens.total > 0 THEN tr_calls[t].tokens.total
                ELSE tr_calls[t].tokens.input + tr_calls[t].tokens.output
                         + tr_calls[t].tokens.reasoning
                         + tr_calls[t].tokens.cache_creation_input_tokens
                         + tr_calls[t].tokens.cache_read_input_tokens

\* The fallback the code computes: input + output + reasoning.
C25_EntryTotalOfThreeCounts ==
    \A t \in Callers :
        tr_calls[t].pc # "idle" =>
            tr_calls[t].chamada.tokens.total =
                IF tr_calls[t].tokens.total > 0 THEN tr_calls[t].tokens.total
                ELSE tr_calls[t].tokens.input + tr_calls[t].tokens.output
                         + tr_calls[t].tokens.reasoning

\* The audit a search_with_audit call returned.
SearchReturned ==
    /\ fn_name = "search_with_audit"
    /\ Len(fn_results) = 1
    /\ ~fn_results[1].raised

\* The number of results is at most k and is the length of both result lists.
SearchCounts(audit) ==
    /\ Len(audit.results) <= audit.k
    /\ audit.num_results = Len(audit.results)
    /\ audit.num_results = Len(audit.results_with_scores)

\* C26: the audit of a search has at most k results, num_results is the
\* length of results and of results_with_scores, and min_score <= avg_score
\* <= max_score, all three 0 when there is no result.
C26_AuditConsistent ==
    SearchReturned =>
        LET audit == fn_results[1].audit
            ms == audit.metadata_summary
        IN  /\ SearchCounts(audit)
            /\ ms.min_score <= ms.avg_score
            /\ ms.avg_score <= ms.max_score
            /\ audit.num_results = 0 =>
                   ms.avg_score = 0 /\ ms.min_score = 0 /\ ms.max_score = 0

\* The part of C26 the code keeps: the counts, min_score <= max_score, and
\* the zeros of a search without result.
C26_CountsConsistent ==
    SearchReturned =>
        LET audit == fn_results[1].audit
            ms == audit.metadata_summary
        IN  /\ SearchCounts(audit)
            /\ ms.min_score <= ms.max_score
            /\ audit.num_results = 0 =>
                   ms.avg_score = 0 /\ ms.min_score = 0 /\ ms.max_score = 0

\* The contents of the passages an audit retrieved, in result order.
PassageContents(audit) ==
    IF "results" \in DOMAIN audit
    THEN [j \in 1..Len(audit.results) |-> audit.results[j].page_content]
    ELSE [j \in 1..Len(audit.chunks) |-> audit.chunks[j].content]

\* The display-ready audit carries the passages of the collected audit.
Displayed(formatted, audit) ==
    /\ Len(formatted.chunks) = audit.num_results
    /\ [j \in 1..Len(formatted.chunks) |-> formatted.chunks[j].content] = PassageContents(audit)

\* C27: every audit collected in a turn, whichever tool produced it, is
\* displayed with exactly num_results chunks, in result order, each with the
\* content of its passage.
C27_AuditsDisplayed ==
    (pc = "returned" /\ result.success) =>
        /\ Len(result.retriever_audits) = Len(audits)
        /\ \A i \in 1..Len(audits) : Displayed(result.retriever_audits[i], audits[i])

\* The part of C27 the code keeps: the audits of the search tools are
\* displayed with their passages.
C27_SearchAuditsDisplayed ==
    (pc = "returned" /\ result.success) =>
        /\ Len(result.retriever_audits) = Len(audits)
        /\ \A i \in 1..Len(audits) :
              audits[i].tool_name \in SearchTools =>
                  Displayed(result.retriever_audits[i], audits[i])

\* Building the display-ready audits leaves the collected audits unchanged.
C27_AuditsKept == [][pc' = "returned" => audits' = audits]_vars

\* The k configured for a retrieval tool.
ConfiguredK(name) == IF name \in SearchTools THEN top_k_results ELSE K_TOOL_RESULTS

\* C28: the k a dispatched retrieval tool passes to the index is the
\* configured constant of the tool, whatever the arguments of the call: two
\* calls that differ only in their arguments request the same k.
C28_RequestedKFixed ==
    (fn_name \in SearchTools \cup {"consultar_vector_store_retriever"}) =>
        \A c \in 1..Len(fn_results) :
            \A i \in 1..Len(fn_results[c]) : fn_results[c][i] = ConfiguredK(fn_name)

\* Two calls that ask for different k have both reached the index.
C28_Witness ==
    /\ fn_name = "consultar_vector_store_retriever"
    /\ Len(fn_results) = 2
    /\ fn_args.first.k # fn_args.second.k
    /\ fn_args.second.k = 100
    /\ Len(fn_results[1]) = 1
    /\ Len(fn_results[2]) = 1

\* The labels of the ID-to-heading map shown to the stage-2 model.
LabelsShown ==
    LET id_to_heading ==
            build_headings_with_ids([d \in 1..Len(fn_args.by_key) |->
                                        filter_excluded(fn_args.by_key[d])])
    IN  { PyText(id_to_heading[i]) : i \in 1..Len(id_to_heading) }

\* The values the final filter selects headings_enriched by.
SelectedHeadings ==
    IF fn_results[1].kind \in {"$in", "$or", "$eq"}
    THEN { fn_results[1].items[i] : i \in 1..Len(fn_results[1].items) }
    ELSE {}

\* C29: every value of the headings_enriched selection in the final filter
\* is the label of an ID of the map shown to the model; other IDs and raw or
\* non-numeric values are dropped.
C29_OnlyLabelsOfTheMap ==
    (fn_name = "retriever_query" /\ Len(fn_results) = 1) =>
        SelectedHeadings \subseteq LabelsShown

\* The part of C29 the code keeps: when the answer holds a list with at least
\* one positive ID, the selection is made of labels of the map.
C29_LabelsWhenIdsRequested ==
    (/\ fn_name = "retriever_query"
     /\ Len(fn_results) = 1
     /\ Len(requested_ids(fn_args.headings_enriched)) > 0) =>
        SelectedHeadings \subseteq LabelsShown

\* The step dispatches a retriever call of the response.
RetrieverDispatched ==
    /\ fa_pc = "dispatch"
    /\ fa_call_idx < Len(fa_tool_calls)
    /\ fa_tool_calls[fa_call_idx + 1].name = "consultar_vector_store_retriever"
    /\ fa_call_idx' = fa_call_idx + 1

\* After the step the dispatched call has its tool-result message.
RetrieverAnswered ==
    \E i \in 1..Len(fa_messages') :
        /\ fa_messages'[i].type = "tool"
        /\ fa_messages'[i].tool_call_id = fa_tool_calls[fa_call_idx + 1].id

\* C30: a dispatched retriever call, raising or not, leaves the turn running
\* with a tool-result message for its call id.
C30_RetrieverFailureAbsorbed ==
    [][RetrieverDispatched => (fa_pc' # "raised" /\ RetrieverAnswered)]_vars

\* The part of C30 the code keeps: a retriever call that returns is answered
\* under its call id.
C30_ReturnedRetrieverAnswered ==
    [][(RetrieverDispatched /\ fa_pc' # "raised") => RetrieverAnswered]_vars

\* The step dispatches a call of a retrieval tool; the call completes when
\* the index, or the guide file, is there.
RetrievalDispatched == pc = "dispatch" /\ call_idx' = call_idx + 1

RetrievalCompletes ==
    LET call == tool_calls[call_idx + 1]
    IN  /\ call.name \in BoundTools
        /\ call.args_ok
        /\ call.name \in SearchTools => vector_store = "loaded"
        /\ call.name = "consult_tokenomics_guide" => guide_exists

\* C31: the audit list grows by one entry at its end for a retrieval tool
\* call that completes, is unchanged by a call that fails, by reading it and
\* by the start of a new turn, and is emptied only by clear_memory.
C31_AuditListFrame ==
    [][/\ (RetrievalDispatched /\ RetrievalCompletes) =>
              /\ Len(audits') = Len(audits) + 1
              /\ SubSeq(audits', 1, Len(audits)) = audits
              /\ audits'[Len(audits')].tool_name = tool_calls[call_idx + 1].name
       /\ (RetrievalDispatched /\ ~RetrievalCompletes) => audits' = audits
       /\ (~RetrievalDispatched /\ audits' # audits) =>
              /\ audits' = <<>>
              /\ pc' = "idle"
              /\ memory' = <<>>
       /\ pc' = "idle" => audits' = <<>>
       /\ turn' # turn => audits' = audits]_vars

\* A second turn has started on an agent that holds audits of the first.
C31_Witness ==
    /\ turn = 2
    /\ pc = "loop"
    /\ iteration = 0
    /\ Len(audits) > 0

\* Where the limit instruction stands in the transient message list, and the
\* retriever results that stand before a position.
LimitPositions == { i \in 1..Len(fa_messages) : fa_messages[i] = LimitMessage }

RetrieverResultsBefore(i) ==
    { j \in 1..(i - 1) : /\ fa_messages[j].type = "tool"
                         /\ fa_messages[j].content[1] = "chunks" }

C33_SoftLimit ==
    /\ []((/\ limit_announced
           /\ fa_pc = "dispatch"
           /\ fa_call_idx < Len(fa_tool_calls)
           /\ fa_tool_calls[fa_call_idx + 1].name = "consultar_vector_store_retriever") =>
              ENABLED (\E out \in RetrieverOutcomes : ~out.raised /\ FaDispatchRetriever(out)))
    /\ [][(limit_announced /\ RetrieverDispatched /\ fa_pc' # "raised") =>
              /\ RetrieverAnswered
              /\ Len(retriever_queries') = Len(retriever_queries) + 1
              /\ fa_pc' = "loop"]_vars

\* A turn returned after more retriever calls than its limit.
C33_Witness ==
    /\ fa_pc = "returned"
    /\ max_tool_calls >= 0
    /\ limit_announced
    /\ Len(retriever_queries) > max_tool_calls
    /\ Cardinality(RetrieverResultsBefore(Len(fa_messages) + 1)) = Len(retriever_queries)

\* The entries the main loop of the turn registered, in their order.
MainEntries == SelectSeq(fa_chamadas, LAMBDA c : c.componente # "seletor")

EntriesOfComponent(comp) == SelectSeq(MainEntries, LAMBDA c : c.componente = comp)

AnalistasBefore(i) ==
    Cardinality({ j \in 1..(i - 1) : MainEntries[j].componente = "analista" })

\* C34: at the return of a turn with L model invocations and n retriever
\* calls the tracker holds L 'analista' entries of iterations 1..L, n
\* 'retriever_step1' and n 'retriever_step2' entries, each pair registered
\* in the iteration of its call and before the next model invocation.
C34_TrackerEntries ==
    fa_pc = "returned" =>
        /\ Len(EntriesOfComponent("analista")) = fa_llm_call_count
        /\ \A i \in 1..fa_llm_call_count : EntriesOfComponent("analista")[i].iteracao = i
        /\ Len(EntriesOfComponent("retriever_step1")) = Len(retriever_queries)
        /\ Len(EntriesOfComponent("retriever_step2")) = Len(retriever_queries)
        /\ \A k \in 1..Len(retriever_queries) :
              /\ EntriesOfComponent("retriever_step1")[k].iteracao = retriever_queries[k]
              /\ EntriesOfComponent("retriever_step2")[k].iteracao = retriever_queries[k]
        /\ \A i \in 1..Len(MainEntries) :
              MainEntries[i].componente = "retriever_step1" =>
                  /\ i < Len(MainEntries)
                  /\ MainEntries[i + 1].componente = "retriever_step2"
                  /\ AnalistasBefore(i) = MainEntries[i].iteracao

\* A turn returned after three model invocations and two retriever calls,
\* with an entry of a seletor thread in its tracker.
C34_Witness ==
    /\ fa_pc = "returned"
    /\ fa_llm_call_count = 3
    /\ Len(retriever_queries) = 2
    /\ Len(MainEntries) < Len(fa_chamadas)

\* C35: the mutations of the memorized-chunks pool by the seletor workers of
\* one ConversationMemory, of the same turn or not, occur in the order the
\* workers were spawned.
C35_PoolMutatedInSpawnOrder ==
    \A a, b \in 1..Len(selecoes) :
        a < b => \/ selecoes[a].turn < selecoes[b].turn
                 \/ selecoes[a].turn = selecoes[b].turn
                      /\ selecoes[a].selecao < selecoes[b].selecao

\* The seletor entries of a ledger.
SeletorEntries(chamadas_) == SelectSeq(chamadas_, LAMBDA c : c.componente = "seletor")

\* C36: the summaries in the result of a turn hold the 'seletor' entry of
\* every worker of the turn that succeeded, whatever the interleaving of the
\* main loop and the workers.
C36_ResultCoversSeletorEntries ==
    fa_pc = "returned" =>
        LET tt == fa_result.tokens_tracking
            n == Len(SeletorEntries(fa_chamadas))
        IN  /\ Len(SeletorEntries(tt.tabela_detalhada)) = n
            /\ tt.resumo_total.total_chamadas = Len(fa_chamadas)
            /\ n > 0 => /\ "seletor" \in DOMAIN tt.resumo_componentes
                        /\ tt.resumo_componentes["seletor"].chamadas = n

\* The part of C36 the code keeps: the summaries hold the entries that were
\* in the tracker when the result was built.
C36_ResultCoversEntriesAtReturn ==
    fa_pc = "returned" =>
        LET tt == fa_result.tokens_tracking
        IN  /\ tt.resumo_total.total_chamadas = Len(tt.tabela_detalhada)
            /\ Len(tt.tabela_detalhada) <= Len(fa_chamadas)
            /\ tt.tabela_detalhada = SubSeq(fa_chamadas, 1, Len(tt.tabela_detalhada))

\* C37: the token summary of a successful turn covers that turn only:
\* por_componente['agente'].chamadas is total_chamadas_llm, and the ledger
\* holds one 'agente' entry per model invocation of the turn, turno 1..n in
\* order, and nothing else.
C37_TokenSummaryOfTheTurn ==
    (pc = "returned" /\ result.success) =>
        /\ DOMAIN result.tokens.por_componente = {"agente"}
        /\ result.tokens.por_componente["agente"].chamadas = result.stats.total_chamadas_llm
        /\ Len(chamadas) = llm_call_count
        /\ Len(chamadas) = Len(trace)
        /\ \A i \in 1..Len(chamadas) :
              chamadas[i] = [componente |-> "agente", turno |-> i]

\* The second turn of an agent returned after two model invocations, the
\* first turn having been answered.
C37_Witness ==
    /\ pc = "returned"
    /\ result.success
    /\ turn = 2
    /\ Len(memory) = 4
    /\ result.stats.total_chamadas_llm = 2

\* The memory is a sequence of pairs: a user message, then the answer to it.
CompletePairs(mem) ==
    /\ Len(mem) % 2 = 0
    /\ \A i \in 1..Len(mem) :
          /\ mem[i].type = (IF i % 2 = 1 THEN "human" ELSE "ai")
          /\ mem[i].tool_calls = <<>>

\* C38: every step of a chat turn other than the successful return, the
\* return at max_iterations and the return after an exception included,
\* leaves the memory as it was, so a turn that ends with success=False leaves
\* the memory as it was before the turn, and the memory always holds
\* complete user/assistant pairs.
C38_FailedTurnKeepsMemory ==
    /\ [](CompletePairs(memory))
    /\ [][(pc' \in {"loop", "dispatch"} \/ (pc' = "returned" /\ ~result'.success))
            => memory' = memory]_vars

\* The second turn ended at max_iterations after an answered first turn.
C38_Witness ==
    /\ pc = "returned"
    /\ result = MaxIterationsResult
    /\ turn = 2
    /\ iteration = max_iterations
    /\ Len(memory) = 2

\* User and assistant messages in strict alternation, as many of one as of
\* the other.
Alternates(history) ==
    /\ Len(history) % 2 = 0
    /\ \A i \in 1..Len(history) :
          history[i].type = (IF i % 2 = 1 THEN "human" ELSE "ai")

\* C39: after any turn of run_agent_turn_single_llm has ended, by a return
\* or by an exception of the model call or of the retriever, llm_history
\* holds user and assistant messages in strict alternation with equal counts.
C39_HistoryAlternates ==
    fa_pc \in {"returned", "raised"} => Alternates(llm_history)

\* C39, its consequence: the messages of a turn never hold two consecutive
\* user messages.
C39_NoConsecutiveUserMessages ==
    \A i \in 1..(Len(fa_messages) - 1) :
        ~(fa_messages[i].type = "human" /\ fa_messages[i + 1].type = "human")

\* C39 for the turns that return: a history that alternated when the turn
\* started alternates when the turn has returned.
C39_ReturnedTurnAlternates ==
    [][(fa_pc = "loop" /\ fa_pc' = "returned"
           /\ Alternates(SubSeq(llm_history, 1, Len(llm_history) - 1)))
        => Alternates(llm_history')]_vars
====
